---- MODULE Spec2Model ----
(***************************************************************************)
(* Model of the streaming-info fetcher of TooScaryDidntStream              *)
(* (scripts/fetch_streaming_info.py) and of the renderer's lookup          *)
(* (scripts/generate_html.py).                                             *)
(*                                                                         *)
(* Python values are modelled as follows.                                  *)
(*   str            a sequence of one-character strings, except for the    *)
(*                  atoms (titles, provider names, type codes) that the    *)
(*                  code only compares and copies                          *)
(*   Optional[x]    a sequence of length <= 1: <<>> is None, <<x>> is x     *)
(*   dict           a record; a key the dict lacks is absent from DOMAIN   *)
(*   list           a sequence                                             *)
(*   datetime       a number of ticks since 0001-01-01 00:00 (ordinal 1),  *)
(*                  TicksPerDay ticks to the day                           *)
(***************************************************************************)
EXTENDS Integers, Sequences, FiniteSets, TLC

\* Bounds of the model.
TicksPerDay == 2    \* clock ticks to the day
MaxTicks == 1       \* how far the clock advances
MaxRuns == 2        \* runs of the script
MaxList == 2        \* length of the lists a provider answers with
MaxEpisodes == 3    \* episodes of a movies document given to the cleanup
MaxElapsed == 4     \* how far time.time() advances while requests are observed
MaxRequests == 3    \* provider requests observed

\* -------------------------------------------------------------------------
\* Python built-ins used by the code
\* -------------------------------------------------------------------------

None == <<>>

Some(x) == <<x>>

\* dict.get(key) for a key whose values are strings or Optionals.
Get(d, key) == IF key \in DOMAIN d THEN d[key] ELSE None

\* dict.get(key, []) for a key whose values are lists.
GetList(d, key) == IF key \in DOMAIN d THEN d[key] ELSE <<>>

\* [F(x) for x in s]
MapSeq(s, F(_)) == [i \in 1..Len(s) |-> F(s[i])]

Digits == <<"0", "1", "2", "3", "4", "5", "6", "7", "8", "9">>

IsDigit(c) == \E i \in 1..10 : Digits[i] = c

DigitVal(c) == (CHOOSE i \in 1..10 : Digits[i] = c) - 1

IsLeap(y) == (y % 4 = 0) /\ ((y % 100 # 0) \/ (y % 400 = 0))

DaysInMonth(y, m) ==
    IF m = 2 THEN (IF IsLeap(y) THEN 29 ELSE 28)
    ELSE IF m \in {4, 6, 9, 11} THEN 30 ELSE 31

RECURSIVE DaysBeforeMonth(_, _)
DaysBeforeMonth(y, m) ==
    IF m <= 1 THEN 0 ELSE DaysBeforeMonth(y, m - 1) + DaysInMonth(y, m - 1)

\* datetime.toordinal(): 0001-01-01 is day 1.
Ordinal(y, m, d) ==
    365 * (y - 1) + ((y - 1) \div 4) - ((y - 1) \div 100) + ((y - 1) \div 400)
        + DaysBeforeMonth(y, m) + d

\* The years the model's clock and stored dates can fall in.
Years == 2023..2025

\* datetime.strptime(s, "%Y-%m-%d"): the format's regular expression is
\* (\d\d\d\d)-(1[0-2]|0[1-9]|[1-9])-(3[01]|[12]\d|0[1-9]|[1-9]) and must consume
\* the whole string; the fields must then name a day of the calendar.
\* The result is [raised |-> TRUE] for ValueError, else the date's midnight.
StrPTime(s) ==
    LET shapes == {lens \in (1..2) \X (1..2) :
                      /\ Len(s) = 4 + 1 + lens[1] + 1 + lens[2]
                      /\ \A i \in 1..4 : IsDigit(s[i])
                      /\ s[5] = "-"
                      /\ \A i \in 6..(5 + lens[1]) : IsDigit(s[i])
                      /\ s[6 + lens[1]] = "-"
                      /\ \A i \in (7 + lens[1])..Len(s) : IsDigit(s[i])}
    IN  IF shapes = {} THEN [raised |-> TRUE, ticks |-> 0]
        ELSE
          LET lens == CHOOSE l \in shapes : TRUE
              y == 1000 * DigitVal(s[1]) + 100 * DigitVal(s[2])
                     + 10 * DigitVal(s[3]) + DigitVal(s[4])
              m == IF lens[1] = 1 THEN DigitVal(s[6])
                   ELSE 10 * DigitVal(s[6]) + DigitVal(s[7])
              p == 7 + lens[1]
              d == IF lens[2] = 1 THEN DigitVal(s[p])
                   ELSE 10 * DigitVal(s[p]) + DigitVal(s[p + 1])
          IN  IF /\ y >= 1
                 /\ m \in 1..12
                 /\ d >= 1
                 /\ d <= DaysInMonth(y, m)
              THEN [raised |-> FALSE, ticks |-> Ordinal(y, m, d) * TicksPerDay]
              ELSE [raised |-> TRUE, ticks |-> 0]

Pad2(n) == <<Digits[(n \div 10) + 1], Digits[(n % 10) + 1]>>

\* datetime.strftime("%Y-%m-%d") of the instant t.
StrFTime(t) ==
    LET ord == t \div TicksPerDay
        y == CHOOSE yy \in Years :
                 Ordinal(yy, 1, 1) <= ord /\ ord < Ordinal(yy + 1, 1, 1)
        m == CHOOSE mm \in 1..12 :
                 /\ Ordinal(y, mm, 1) <= ord
                 /\ ord < Ordinal(y, mm, 1) + DaysInMonth(y, mm)
        d == ord - Ordinal(y, m, 1) + 1
    IN  Pad2(y \div 100) \o Pad2(y % 100) \o <<"-">> \o Pad2(m) \o <<"-">> \o Pad2(d)

\* timedelta.days of (t1 - t0): whole days, rounded towards minus infinity.
TimedeltaDays(t1, t0) == (t1 - t0) \div TicksPerDay

\* -------------------------------------------------------------------------
\* StreamingInfoFetcher: configuration and pure methods
\* -------------------------------------------------------------------------

cache_duration_days == 7

\* Python truthiness of an Optional[int] / Optional[str].
Truthy(opt) == opt # None /\ opt[1] # 0

\* The (episode, title) matches of the nested loops of
\* is_movie_recently_updated / find_streaming_data, in iteration order.
RECURSIVE MatchingMovies(_, _, _)
MatchingMovies(episodes, movie_title, episode_number) ==
    IF episodes = <<>> THEN <<>>
    ELSE (IF Head(episodes).episode_number = episode_number
          THEN SelectSeq(GetList(Head(episodes), "movies"),
                         LAMBDA movie : movie.title = movie_title)
          ELSE <<>>)
         \o MatchingMovies(Tail(episodes), movie_title, episode_number)

\* What a call gives: the value it returns, or the exception it lets escape.
Returns(v) == [raised |-> FALSE, value |-> v]

Raises == [raised |-> TRUE, value |-> FALSE]

\* Mutant: the window includes its last day (<= for <).
RECURSIVE RecentAmong_Inclusive(_, _)
RecentAmong_Inclusive(matches, t) ==
    IF matches = <<>> THEN Returns(FALSE)
    ELSE LET last_updated == Get(Head(matches), "last_updated")
         IN  IF last_updated # <<>>
             THEN LET update_date == StrPTime(last_updated)
                  IN  IF update_date.raised THEN Returns(FALSE)
                      ELSE Returns(TimedeltaDays(t, update_date.ticks)
                                       <= cache_duration_days)
             ELSE RecentAmong_Inclusive(Tail(matches), t)

\* Mutant: no except clause, strptime's ValueError escapes.
RECURSIVE RecentAmong_NoExcept(_, _)
RecentAmong_NoExcept(matches, t) ==
    IF matches = <<>> THEN Returns(FALSE)
    ELSE LET last_updated == Get(Head(matches), "last_updated")
         IN  IF last_updated # <<>>
             THEN LET update_date == StrPTime(last_updated)
                  IN  IF update_date.raised THEN Raises
                      ELSE Returns(TimedeltaDays(t, update_date.ticks)
                                       < cache_duration_days)
             ELSE RecentAmong_NoExcept(Tail(matches), t)

\* The body of the inner loop, lines 244-251: the first match with a truthy
\* last_updated decides; matches without one are passed over. strptime's
\* ValueError is caught and answered with False.
RECURSIVE RecentAmong(_, _)
RecentAmong(matches, t) ==
    IF matches = <<>> THEN Returns(FALSE)
    ELSE LET last_updated == Get(Head(matches), "last_updated")
         IN  IF last_updated # <<>>
             THEN LET update_date == StrPTime(last_updated)
                  IN  IF update_date.raised THEN Returns(FALSE)
                      ELSE Returns(TimedeltaDays(t, update_date.ticks)
                                       < cache_duration_days)
             ELSE RecentAmong(Tail(matches), t)

\* is_movie_recently_updated, with self.streaming_data and datetime.now()
\* passed explicitly.
is_movie_recently_updated(sd, movie_title, episode_number, t) ==
    IF sd = None THEN Returns(FALSE)
    ELSE RecentAmong(MatchingMovies(GetList(sd[1], "episodes"), movie_title,
                                    episode_number), t)

\* The (episode number, movie) pairs of the movies data, in document order.
RECURSIVE MoviePairs(_)
MoviePairs(episodes) ==
    IF episodes = <<>> THEN <<>>
    ELSE MapSeq(GetList(Head(episodes), "movies"),
                LAMBDA movie : [episode_number |-> Head(episodes).episode_number,
                                movie |-> movie])
         \o MoviePairs(Tail(episodes))

\* Mutant: the test of line 265 inverted.
get_movies_to_update_Inverted(md, sd, t) ==
    LET pairs == MoviePairs(GetList(md, "episodes"))
        Recent(p) == is_movie_recently_updated(sd, p.movie.title, p.episode_number, t)
    IN  IF \E i \in 1..Len(pairs) : Recent(pairs[i]).raised THEN Raises
        ELSE Returns(SelectSeq(pairs, LAMBDA p : Recent(p).value))

\* get_movies_to_update: the pairs that are not recently updated. An exception
\* of is_movie_recently_updated would escape it.
get_movies_to_update(md, sd, t) ==
    LET pairs == MoviePairs(GetList(md, "episodes"))
        Recent(p) == is_movie_recently_updated(sd, p.movie.title, p.episode_number, t)
    IN  IF \E i \in 1..Len(pairs) : Recent(pairs[i]).raised THEN Raises
        ELSE Returns(SelectSeq(pairs, LAMBDA p : ~Recent(p).value))

\* ---- providers -----------------------------------------------------------

EmptyUrl == [site |-> "", id |-> 0]

UrlOr(d, key) == IF key \in DOMAIN d THEN d[key] ELSE EmptyUrl

\* Mutant: a failed search is issued a second time.
search_movie_tmdb_Retry(resp) ==
    [reqs |-> IF resp.ok THEN <<"tmdb_search">> ELSE <<"tmdb_search", "tmdb_search">>,
     result |-> IF resp.ok /\ resp.results # <<>> THEN Some(Head(resp.results))
                ELSE None]

\* search_movie_tmdb: one request; the first result, None on failure or
\* when there is no result.
search_movie_tmdb(resp) ==
    [reqs |-> <<"tmdb_search">>,
     result |-> IF resp.ok /\ resp.results # <<>> THEN Some(Head(resp.results))
                ELSE None]

TmdbSource(tmdb_id, provider, type) ==
    [name |-> IF "provider_name" \in DOMAIN provider THEN provider.provider_name
              ELSE "Unknown",
     type |-> type,
     region |-> "US",
     web_url |-> [site |-> "https://www.themoviedb.org/movie/watch", id |-> tmdb_id],
     logo_url |-> [base |-> "https://image.tmdb.org/t/p/original",
                   path |-> IF "logo_path" \in DOMAIN provider
                            THEN provider.logo_path ELSE ""]]

\* get_watch_providers_tmdb: one request; free, flatrate, rent, buy in that order.
get_watch_providers_tmdb(tmdb_id, resp) ==
    [reqs |-> <<"tmdb_providers">>,
     sources |->
        IF ~resp.ok THEN <<>>
        ELSE LET us == resp.US
                 Of(key, type) ==
                     MapSeq(GetList(us, key), LAMBDA p : TmdbSource(tmdb_id, p, type))
             IN  Of("free", "free") \o Of("flatrate", "subscription")
                   \o Of("rent", "rent") \o Of("buy", "buy")]

\* The first title result whose year does not contradict the movie's year.
RECURSIVE FirstYearMatch(_, _)
FirstYearMatch(results, year) ==
    IF results = <<>> THEN None
    ELSE IF year # 0 /\ Truthy(Get(Head(results), "year"))
              /\ Head(results).year[1] # year
         THEN FirstYearMatch(Tail(results), year)
         ELSE Some(Head(results))

search_movie_watchmode(key, year, resp) ==
    IF ~key THEN [reqs |-> <<>>, result |-> None]
    ELSE [reqs |-> <<"watchmode_search">>,
          result |-> IF resp.ok THEN FirstYearMatch(resp.title_results, year)
                     ELSE None]

\* type_map.get(code, code)
MapType(code) == IF code = "sub" THEN "subscription" ELSE code

WatchmodeSource(src) ==
    [name |-> IF "name" \in DOMAIN src THEN src.name ELSE "Unknown",
     type |-> IF "type" \in DOMAIN src THEN MapType(src.type) ELSE "unknown",
     region |-> IF "region" \in DOMAIN src THEN src.region ELSE "US",
     web_url |-> IF UrlOr(src, "web_url") # EmptyUrl THEN src.web_url
                 ELSE IF UrlOr(src, "ios_appstore_url") # EmptyUrl
                      THEN src.ios_appstore_url
                 ELSE IF UrlOr(src, "android_playstore_url") # EmptyUrl
                      THEN src.android_playstore_url
                 ELSE EmptyUrl,
     logo_url |-> [base |-> "",
                   path |-> IF "logo_100px" \in DOMAIN src THEN src.logo_100px
                            ELSE ""]]

get_watch_providers_watchmode(key, resp) ==
    IF ~key THEN [reqs |-> <<>>, sources |-> <<>>]
    ELSE [reqs |-> <<"watchmode_sources">>,
          sources |-> IF resp.ok THEN MapSeq(resp.data, WatchmodeSource) ELSE <<>>]

\* ---- fetch_movie_streaming_info ------------------------------------------

SourceKey(s) == <<s.name, s.type>>

\* Lines 315-318: the loop over tmdb_sources. existing_keys was computed
\* before the loop and is not extended by it.
RECURSIVE MergeLoop(_, _, _)
MergeLoop(streaming_sources, tmdb_sources, existing_keys) ==
    IF tmdb_sources = <<>> THEN streaming_sources
    ELSE MergeLoop(IF SourceKey(Head(tmdb_sources)) \notin existing_keys
                   THEN Append(streaming_sources, Head(tmdb_sources))
                   ELSE streaming_sources,
                   Tail(tmdb_sources), existing_keys)

\* Mutant: the lists are concatenated, nothing is filtered.
MergeSources_NoDedup(watchmode_sources, tmdb_sources) ==
    watchmode_sources \o tmdb_sources

\* Mutant: TMDB's version of a source both providers list is the one kept.
MergeSources_PreferTmdb(watchmode_sources, tmdb_sources) ==
    SelectSeq(watchmode_sources,
              LAMBDA s : \A i \in 1..Len(tmdb_sources) :
                             SourceKey(tmdb_sources[i]) # SourceKey(s))
        \o tmdb_sources

\* Lines 312-318.
MergeSources(watchmode_sources, tmdb_sources) ==
    IF tmdb_sources # <<>>
    THEN MergeLoop(watchmode_sources, tmdb_sources,
                   {SourceKey(watchmode_sources[i]) : i \in 1..Len(watchmode_sources)})
    ELSE watchmode_sources

\* Mutant: the TMDB search is issued whenever a TMDB key is set.
fetch_movie_streaming_info_AlwaysSearch(keys, movie, resp, t) ==
    LET year == movie.year
        wm == IF keys.watchmode
              THEN search_movie_watchmode(keys.watchmode, year, resp.wm_search)
              ELSE [reqs |-> <<>>, result |-> None]
        wm_movie == wm.result
        watchmode_id == IF wm_movie # None THEN Some(wm_movie[1].id) ELSE None
        wmp == IF wm_movie # None
               THEN get_watch_providers_watchmode(keys.watchmode, resp.wm_sources)
               ELSE [reqs |-> <<>>, sources |-> <<>>]
        watchmode_sources == wmp.sources
        tmdb_id1 == IF wm_movie # None /\ Truthy(Get(wm_movie[1], "tmdb_id"))
                    THEN wm_movie[1].tmdb_id ELSE None
        ts == IF keys.tmdb
              THEN search_movie_tmdb(resp.tmdb_search)
              ELSE [reqs |-> <<>>, result |-> None]
        tmdb_id == IF ts.result # None THEN Some(ts.result[1].id) ELSE tmdb_id1
        tp == IF keys.tmdb /\ Truthy(tmdb_id)
              THEN get_watch_providers_tmdb(tmdb_id[1], resp.tmdb_providers)
              ELSE [reqs |-> <<>>, sources |-> <<>>]
        tmdb_sources == tp.sources
        streaming_sources == MergeSources(watchmode_sources, tmdb_sources)
        data_sources == (IF watchmode_sources # <<>> THEN <<"watchmode">> ELSE <<>>)
                          \o (IF tmdb_sources # <<>> THEN <<"tmdb">> ELSE <<>>)
    IN  [reqs |-> wm.reqs \o wmp.reqs \o ts.reqs \o tp.reqs,
         wm_movie |-> wm_movie,
         tmdb_providers_arg |-> IF tp.reqs # <<>> THEN tmdb_id ELSE None,
         watchmode_sources |-> watchmode_sources,
         tmdb_sources |-> tmdb_sources,
         failures |-> (IF wm.reqs # <<>> /\ ~resp.wm_search.ok
                       THEN {"watchmode_search"} ELSE {})
                      \cup (IF wmp.reqs # <<>> /\ ~resp.wm_sources.ok
                            THEN {"watchmode_sources"} ELSE {})
                      \cup (IF ts.reqs # <<>> /\ ~resp.tmdb_search.ok
                            THEN {"tmdb_search"} ELSE {})
                      \cup (IF tp.reqs # <<>> /\ ~resp.tmdb_providers.ok
                            THEN {"tmdb_providers"} ELSE {}),
         record |-> [title |-> movie.title,
                     year |-> year,
                     imdb_id |-> Get(movie, "imdb_id"),
                     streaming_sources |-> streaming_sources,
                     data_sources |-> data_sources,
                     last_updated |-> StrFTime(t),
                     tmdb_id |-> tmdb_id,
                     watchmode_id |-> watchmode_id]]

\* A fetch that would list "tmdb" only if the merge kept a TMDB source.
fetch_movie_streaming_info_MergedOnly(keys, movie, resp, t) ==
    LET year == movie.year
        wm == IF keys.watchmode
              THEN search_movie_watchmode(keys.watchmode, year, resp.wm_search)
              ELSE [reqs |-> <<>>, result |-> None]
        wm_movie == wm.result
        watchmode_id == IF wm_movie # None THEN Some(wm_movie[1].id) ELSE None
        wmp == IF wm_movie # None
               THEN get_watch_providers_watchmode(keys.watchmode, resp.wm_sources)
               ELSE [reqs |-> <<>>, sources |-> <<>>]
        watchmode_sources == wmp.sources
        tmdb_id1 == IF wm_movie # None /\ Truthy(Get(wm_movie[1], "tmdb_id"))
                    THEN wm_movie[1].tmdb_id ELSE None
        ts == IF keys.tmdb /\ ~Truthy(tmdb_id1)
              THEN search_movie_tmdb(resp.tmdb_search)
              ELSE [reqs |-> <<>>, result |-> None]
        tmdb_id == IF ts.result # None THEN Some(ts.result[1].id) ELSE tmdb_id1
        tp == IF keys.tmdb /\ Truthy(tmdb_id)
              THEN get_watch_providers_tmdb(tmdb_id[1], resp.tmdb_providers)
              ELSE [reqs |-> <<>>, sources |-> <<>>]
        tmdb_sources == tp.sources
        streaming_sources == MergeSources(watchmode_sources, tmdb_sources)
        \* "watchmode_sources or []": a non-empty watchmode_sources is the very
        \* list the merge appended to, and line 321 tests it after the merge.
        watchmode_sources_merged == IF watchmode_sources # <<>> THEN streaming_sources
                                    ELSE watchmode_sources
        data_sources == (IF watchmode_sources_merged # <<>> THEN <<"watchmode">>
                         ELSE <<>>)
                          \o (IF \E i \in 1..Len(streaming_sources) :
                                     i > Len(watchmode_sources)
                              THEN <<"tmdb">> ELSE <<>>)
    IN  [reqs |-> wm.reqs \o wmp.reqs \o ts.reqs \o tp.reqs,
         wm_movie |-> wm_movie,
         tmdb_providers_arg |-> IF tp.reqs # <<>> THEN tmdb_id ELSE None,
         watchmode_sources |-> watchmode_sources,
         tmdb_sources |-> tmdb_sources,
         failures |-> (IF wm.reqs # <<>> /\ ~resp.wm_search.ok
                       THEN {"watchmode_search"} ELSE {})
                      \cup (IF wmp.reqs # <<>> /\ ~resp.wm_sources.ok
                            THEN {"watchmode_sources"} ELSE {})
                      \cup (IF ts.reqs # <<>> /\ ~resp.tmdb_search.ok
                            THEN {"tmdb_search"} ELSE {})
                      \cup (IF tp.reqs # <<>> /\ ~resp.tmdb_providers.ok
                            THEN {"tmdb_providers"} ELSE {}),
         record |-> [title |-> movie.title,
                     year |-> year,
                     imdb_id |-> Get(movie, "imdb_id"),
                     streaming_sources |-> streaming_sources,
                     data_sources |-> data_sources,
                     last_updated |-> StrFTime(t),
                     tmdb_id |-> tmdb_id,
                     watchmode_id |-> watchmode_id]]

\* The whole method. keys = [tmdb |-> BOOLEAN, watchmode |-> BOOLEAN];
\* resp holds the provider's answer to each request, should it be made.
\* Besides the returned record the result lists the requests issued (reqs),
\* what the Watchmode search returned (wm_movie), the id passed to
\* get_watch_providers_tmdb, the two provider lists before the merge, and the
\* requests that failed.
fetch_movie_streaming_info(keys, movie, resp, t) ==
    LET year == movie.year
        wm == IF keys.watchmode
              THEN search_movie_watchmode(keys.watchmode, year, resp.wm_search)
              ELSE [reqs |-> <<>>, result |-> None]
        wm_movie == wm.result
        watchmode_id == IF wm_movie # None THEN Some(wm_movie[1].id) ELSE None
        wmp == IF wm_movie # None
               THEN get_watch_providers_watchmode(keys.watchmode, resp.wm_sources)
               ELSE [reqs |-> <<>>, sources |-> <<>>]
        watchmode_sources == wmp.sources
        tmdb_id1 == IF wm_movie # None /\ Truthy(Get(wm_movie[1], "tmdb_id"))
                    THEN wm_movie[1].tmdb_id ELSE None
        ts == IF keys.tmdb /\ ~Truthy(tmdb_id1)
              THEN search_movie_tmdb(resp.tmdb_search)
              ELSE [reqs |-> <<>>, result |-> None]
        tmdb_id == IF ts.result # None THEN Some(ts.result[1].id) ELSE tmdb_id1
        tp == IF keys.tmdb /\ Truthy(tmdb_id)
              THEN get_watch_providers_tmdb(tmdb_id[1], resp.tmdb_providers)
              ELSE [reqs |-> <<>>, sources |-> <<>>]
        tmdb_sources == tp.sources
        streaming_sources == MergeSources(watchmode_sources, tmdb_sources)
        \* "watchmode_sources or []": a non-empty watchmode_sources is the very
        \* list the merge appended to, and line 321 tests it after the merge.
        watchmode_sources_merged == IF watchmode_sources # <<>> THEN streaming_sources
                                    ELSE watchmode_sources
        data_sources == (IF watchmode_sources_merged # <<>> THEN <<"watchmode">>
                         ELSE <<>>)
                          \o (IF tmdb_sources # <<>> THEN <<"tmdb">> ELSE <<>>)
    IN  [reqs |-> wm.reqs \o wmp.reqs \o ts.reqs \o tp.reqs,
         wm_movie |-> wm_movie,
         tmdb_providers_arg |-> IF tp.reqs # <<>> THEN tmdb_id ELSE None,
         watchmode_sources |-> watchmode_sources,
         tmdb_sources |-> tmdb_sources,
         failures |-> (IF wm.reqs # <<>> /\ ~resp.wm_search.ok
                       THEN {"watchmode_search"} ELSE {})
                      \cup (IF wmp.reqs # <<>> /\ ~resp.wm_sources.ok
                            THEN {"watchmode_sources"} ELSE {})
                      \cup (IF ts.reqs # <<>> /\ ~resp.tmdb_search.ok
                            THEN {"tmdb_search"} ELSE {})
                      \cup (IF tp.reqs # <<>> /\ ~resp.tmdb_providers.ok
                            THEN {"tmdb_providers"} ELSE {}),
         record |-> [title |-> movie.title,
                     year |-> year,
                     imdb_id |-> Get(movie, "imdb_id"),
                     streaming_sources |-> streaming_sources,
                     data_sources |-> data_sources,
                     last_updated |-> StrFTime(t),
                     tmdb_id |-> tmdb_id,
                     watchmode_id |-> watchmode_id]]

\* HTMLGenerator.find_streaming_data over the loaded streaming data.
find_streaming_data(sd, episode_number, movie_title) ==
    IF sd = None THEN <<>>
    ELSE LET matches == MatchingMovies(GetList(sd[1], "episodes"), movie_title,
                                       episode_number)
         IN  IF matches = <<>> THEN <<>>
             ELSE GetList(Head(matches), "streaming_sources")

\* ---- update_streaming_data: the episode lookup -----------------------------

\* A lookup that would keep the first entry of an episode number.
DictSet_KeepFirst(d, episode) ==
    IF \E k \in 1..Len(d) : d[k].episode_number = episode.episode_number
    THEN d
    ELSE Append(d, episode)

\* existing_episodes[episode["episode_number"]] = episode on an insertion-ordered
\* dict, kept as the sequence of its values.
DictSet(d, episode) ==
    IF \E k \in 1..Len(d) : d[k].episode_number = episode.episode_number
    THEN [k \in 1..Len(d) |->
              IF d[k].episode_number = episode.episode_number THEN episode ELSE d[k]]
    ELSE Append(d, episode)

RECURSIVE DictFromList(_, _)
DictFromList(d, episodes) ==
    IF episodes = <<>> THEN d
    ELSE DictFromList(DictSet(d, Head(episodes)), Tail(episodes))

\* Mutant: dict.update instead of replacement, the old record's other fields stay.
StoreMovie_Merging(d, episode_number, title, updated_movie) ==
    IF \E k \in 1..Len(d) : d[k].episode_number = episode_number
    THEN LET k == CHOOSE j \in 1..Len(d) : d[j].episode_number = episode_number
             movies == GetList(d[k], "movies")
             hits == {i \in 1..Len(movies) : movies[i].title = title}
         IN  IF hits # {}
             THEN LET i == CHOOSE h \in hits : \A g \in hits : h <= g
                      old == movies[i]
                  IN  [d EXCEPT ![k].movies[i] =
                          [f \in DOMAIN old \cup DOMAIN updated_movie |->
                              IF f \in DOMAIN updated_movie THEN updated_movie[f]
                              ELSE old[f]]]
             ELSE [d EXCEPT ![k].movies = Append(movies, updated_movie)]
    ELSE Append(d, [episode_number |-> episode_number,
                    movies |-> <<updated_movie>>])

\* Mutant: a record without sources is not stored over an existing one.
StoreMovie_SkipEmpty(d, episode_number, title, updated_movie) ==
    IF \E k \in 1..Len(d) : d[k].episode_number = episode_number
    THEN LET k == CHOOSE j \in 1..Len(d) : d[j].episode_number = episode_number
             movies == GetList(d[k], "movies")
             hits == {i \in 1..Len(movies) : movies[i].title = title}
         IN  IF hits # {}
             THEN LET i == CHOOSE h \in hits : \A g \in hits : h <= g
                  IN  IF updated_movie.streaming_sources = <<>> THEN d
                      ELSE [d EXCEPT ![k].movies[i] = updated_movie]
             ELSE [d EXCEPT ![k].movies = Append(movies, updated_movie)]
    ELSE Append(d, [episode_number |-> episode_number,
                    movies |-> <<updated_movie>>])

\* A store that would append the new record without looking for an old one.
StoreMovie_AppendAlways(d, episode_number, title, updated_movie) ==
    IF \E k \in 1..Len(d) : d[k].episode_number = episode_number
    THEN LET k == CHOOSE j \in 1..Len(d) : d[j].episode_number = episode_number
         IN  [d EXCEPT ![k].movies = Append(GetList(d[k], "movies"), updated_movie)]
    ELSE Append(d, [episode_number |-> episode_number,
                    movies |-> <<updated_movie>>])

\* A store that would keep the sources of the old record when the new record
\* has none.
StoreMovie_KeepSources(d, episode_number, title, updated_movie) ==
    IF \E k \in 1..Len(d) : d[k].episode_number = episode_number
    THEN LET k == CHOOSE j \in 1..Len(d) : d[j].episode_number = episode_number
             movies == GetList(d[k], "movies")
             hits == {i \in 1..Len(movies) : movies[i].title = title}
         IN  IF hits # {}
             THEN LET i == CHOOSE h \in hits : \A g \in hits : h <= g
                  IN  [d EXCEPT ![k].movies[i] =
                          IF updated_movie.streaming_sources = <<>>
                          THEN [updated_movie EXCEPT !.streaming_sources =
                                    GetList(movies[i], "streaming_sources")]
                          ELSE updated_movie]
             ELSE [d EXCEPT ![k].movies = Append(movies, updated_movie)]
    ELSE Append(d, [episode_number |-> episode_number,
                    movies |-> <<updated_movie>>])

\* Lines 394-412: store updated_movie under episode_number.
StoreMovie(d, episode_number, title, updated_movie) ==
    IF \E k \in 1..Len(d) : d[k].episode_number = episode_number
    THEN LET k == CHOOSE j \in 1..Len(d) : d[j].episode_number = episode_number
             movies == GetList(d[k], "movies")
             hits == {i \in 1..Len(movies) : movies[i].title = title}
         IN  IF hits # {}
             THEN LET i == CHOOSE h \in hits : \A g \in hits : h <= g
                  IN  [d EXCEPT ![k].movies[i] = updated_movie]
             ELSE [d EXCEPT ![k].movies = Append(movies, updated_movie)]
    ELSE Append(d, [episode_number |-> episode_number,
                    movies |-> <<updated_movie>>])

\* Mutant: the episodes are written in the order of the lookup.
SortEpisodes_None(episodes) == episodes

\* list.sort(key=episode_number): a stable insertion sort.
RECURSIVE InsertSorted(_, _)
InsertSorted(sorted, e) ==
    IF sorted = <<>> THEN <<e>>
    ELSE IF Head(sorted).episode_number <= e.episode_number
         THEN <<Head(sorted)>> \o InsertSorted(Tail(sorted), e)
         ELSE <<e>> \o sorted

RECURSIVE SortEpisodes(_)
SortEpisodes(episodes) ==
    IF episodes = <<>> THEN <<>>
    ELSE InsertSorted(SortEpisodes(SubSeq(episodes, 1, Len(episodes) - 1)),
                      episodes[Len(episodes)])

NewMetadata(t, n) ==
    [podcast_name |-> "Too Scary; Didn't Watch",
     last_updated |-> StrFTime(t),
     total_episodes |-> n,
     apis_used |-> <<"tmdb">>,
     update_strategy |-> "incremental_with_caching"]

\* -------------------------------------------------------------------------
\* The data the model runs on
\* -------------------------------------------------------------------------

\* The clock starts on the last tick of 2024-03-01.
Now0 == Ordinal(2024, 3, 1) * TicksPerDay + (TicksPerDay - 1)

Date_0224 == <<"2", "0", "2", "4", "-", "0", "2", "-", "2", "4">>  \* 6 days before
Date_0223 == <<"2", "0", "2", "4", "-", "0", "2", "-", "2", "3">>  \* 7 days before
Date_0301 == <<"2", "0", "2", "4", "-", "0", "3", "-", "0", "1">>  \* today
Date_0309 == <<"2", "0", "2", "4", "-", "3", "-", "9">>            \* next week, unpadded
Date_0230 == <<"2", "0", "2", "4", "-", "0", "2", "-", "3", "0">>  \* no such day
Date_Text == <<"s", "o", "o", "n">>
Date_Time == <<"2", "0", "2", "4", "-", "0", "2", "-", "2", "4", "T">>
Date_Empty == <<>>

DateStrings == {Date_0224, Date_0223, Date_0301, Date_0309, Date_0230, Date_Text,
                Date_Time, Date_Empty}

Titles == {"A", "B"}

EpisodeNumbers == {1, 2}

MovieA == [title |-> "A", year |-> 1980]

MovieB == [title |-> "B", year |-> 1999, imdb_id |-> <<"t", "t", "1">>]

MoviesDoc(episodes) == [episodes |-> episodes]

MoviesDocs ==
    {MoviesDoc(<<>>),
     MoviesDoc(<<[episode_number |-> 1, movies |-> <<MovieA, MovieB>>]>>),
     MoviesDoc(<<[episode_number |-> 1, movies |-> <<MovieA>>],
                 [episode_number |-> 2, movies |-> <<MovieB>>]>>),
     MoviesDoc(<<[episode_number |-> 2, movies |-> <<MovieA>>]>>)}

NetflixUrl == [site |-> "https://www.netflix.com", id |-> 0]

StoredSource == [name |-> "Netflix", type |-> "subscription", region |-> "US",
                 web_url |-> NetflixUrl,
                 logo_url |-> [base |-> "", path |-> "netflix.png"]]

\* A record as an earlier version of the fetcher (or an editor) left it: it has
\* a notes field the fetcher never writes, and may lack last_updated.
StoredRecord(title, dated, last_updated) ==
    IF dated
    THEN [title |-> title, year |-> 1980, streaming_sources |-> <<StoredSource>>,
          data_sources |-> <<"tmdb">>, notes |-> "kept by hand",
          last_updated |-> last_updated]
    ELSE [title |-> title, year |-> 1980, streaming_sources |-> <<StoredSource>>,
          data_sources |-> <<"tmdb">>, notes |-> "kept by hand"]

StoredRecords(title) ==
    {StoredRecord(title, TRUE, lu) : lu \in DateStrings}
        \cup {StoredRecord(title, FALSE, <<>>)}

StreamDoc(episodes) ==
    [episodes |-> episodes, metadata |-> NewMetadata(Now0 - 7 * TicksPerDay, Len(episodes))]

\* The streaming-data documents a run of the fetcher may find on disk.
StreamDocs ==
    {StreamDoc(<<>>),
     StreamDoc(<<[episode_number |-> 1,
                  movies |-> <<StoredRecord("A", TRUE, Date_0224),
                               StoredRecord("C", TRUE, Date_0223)>>]>>),
     StreamDoc(<<[episode_number |-> 1,
                  movies |-> <<StoredRecord("B", TRUE, Date_0223),
                               StoredRecord("A", TRUE, Date_0223)>>]>>),
     StreamDoc(<<[episode_number |-> 2,
                  movies |-> <<StoredRecord("B", TRUE, Date_Text)>>],
                 [episode_number |-> 1,
                  movies |-> <<StoredRecord("A", FALSE, <<>>)>>]>>),
     StreamDoc(<<[episode_number |-> 3,
                  movies |-> <<StoredRecord("A", TRUE, Date_0301)>>]>>)}

EmptyDoc == [episodes |-> <<>>, metadata |-> <<>>]

File(status, doc) == [status |-> status, doc |-> doc]

MoviesFiles ==
    {File("ok", d) : d \in MoviesDocs}
        \cup {File("missing", MoviesDoc(<<>>)), File("malformed", MoviesDoc(<<>>))}

StreamingFiles ==
    {File("ok", d) : d \in StreamDocs}
        \cup {File("missing", EmptyDoc), File("malformed", EmptyDoc)}

\* ---- what the providers may answer ---------------------------------------

Failure == [ok |-> FALSE]

WmHit == [id |-> 11, year |-> Some(1980), tmdb_id |-> Some(7)]

WmRaw(name, type) == [name |-> name, type |-> type, web_url |-> NetflixUrl,
                      logo_100px |-> "logo.png"]

TmdbProvider(name) == [provider_name |-> name, logo_path |-> "/logo.jpg"]

\* The answers of one movie's requests in a run: every request fails; every
\* request succeeds and finds nothing; both providers know the movie; only
\* TMDB knows it.
RunResponses ==
    {[wm_search |-> Failure, wm_sources |-> Failure,
      tmdb_search |-> Failure, tmdb_providers |-> Failure],
     [wm_search |-> [ok |-> TRUE, title_results |-> <<>>],
      wm_sources |-> [ok |-> TRUE, data |-> <<>>],
      tmdb_search |-> [ok |-> TRUE, results |-> <<>>],
      tmdb_providers |-> [ok |-> TRUE, US |-> <<>>]],
     [wm_search |-> [ok |-> TRUE, title_results |-> <<WmHit>>],
      wm_sources |-> [ok |-> TRUE, data |-> <<WmRaw("Netflix", "sub")>>],
      tmdb_search |-> [ok |-> TRUE, results |-> <<[id |-> 7]>>],
      tmdb_providers |-> [ok |-> TRUE,
                          US |-> [free |-> <<TmdbProvider("Tubi")>>,
                                  flatrate |-> <<TmdbProvider("Netflix")>>]]],
     [wm_search |-> Failure, wm_sources |-> Failure,
      tmdb_search |-> [ok |-> TRUE, results |-> <<[id |-> 7]>>],
      tmdb_providers |-> [ok |-> TRUE,
                          US |-> [flatrate |-> <<TmdbProvider("Netflix")>>]]]}

KeyConfigs == [tmdb : BOOLEAN, watchmode : BOOLEAN]

\* -------------------------------------------------------------------------
\* State
\* -------------------------------------------------------------------------

VARIABLES
    now,                \* the wall clock, in ticks
    moviesFile,         \* data/movies.json
    streamingFile,      \* data/streaming_data.json
    env,                \* which API keys the environment provides
    pc,                 \* where the process is: idle, update, fetch, done,
                        \* exited (sys.exit), crashed (uncaught exception)
    keys,               \* self.tmdb_api_key, self.watchmode_api_key (set or not)
    movies_data,        \* self.movies_data
    streaming_data,     \* self.streaming_data
    movies_to_update,   \* run()'s local
    idx,                \* position of update_streaming_data's loop
    existing_episodes,  \* update_streaming_data's local
    runs,               \* history: the number of runs started
    startedAt,          \* history: the clock when the current run started
    fileAtStart,        \* history: streamingFile when the current run started
    requests,           \* history: the provider requests of the current run
    fetched,            \* history: what each fetch of the current run returned
    writes,             \* history: saves of streamingFile in the current run
    call,               \* the last direct call of a method and its result
    cache_dir,          \* output/posters: None, or the set of its files
    manifestFile,       \* output/poster_manifest.json: None, or its content
    movies,             \* cache_all_posters' local: the movies with TMDB ids
    poster_manifest,    \* cache_all_posters' local
    downloads,          \* history: the poster requests of the current run
    time,               \* time.time(), in units of TimeUnitMs milliseconds
    last_request_time,  \* self.last_request_time
    starts              \* history: when each provider request was started

vars == <<now, moviesFile, streamingFile, env, pc, keys, movies_data, streaming_data,
          movies_to_update, idx, existing_episodes, runs, startedAt, fileAtStart,
          requests, fetched, writes, call, cache_dir, manifestFile, movies,
          poster_manifest, downloads, time, last_request_time, starts>>

files == <<moviesFile, streamingFile, env>>

memory == <<keys, movies_data, streaming_data, movies_to_update, idx,
            existing_episodes>>

history == <<runs, startedAt, fileAtStart, requests, fetched, writes>>

poster == <<cache_dir, manifestFile, movies, poster_manifest, downloads>>

rate == <<time, last_request_time, starts>>

NoKeys == [tmdb |-> FALSE, watchmode |-> FALSE]

\* No poster cache is involved.
NoPoster ==
    /\ cache_dir = None
    /\ manifestFile = None
    /\ movies = <<>>
    /\ poster_manifest = <<>>
    /\ downloads = <<>>

\* The rate limiter is not observed.
NoRate ==
    /\ time = 0
    /\ last_request_time = 0
    /\ starts = <<>>

\* No process is running: nothing is in memory.
Idle ==
    /\ pc = "idle"
    /\ keys = NoKeys
    /\ movies_data = None
    /\ streaming_data = None
    /\ movies_to_update = <<>>
    /\ idx = 0
    /\ existing_episodes = <<>>
    /\ startedAt = 0
    /\ fileAtStart = File("missing", EmptyDoc)
    /\ requests = <<>>
    /\ fetched = <<>>
    /\ writes = 0

Init ==
    /\ now = Now0
    /\ moviesFile \in MoviesFiles
    /\ streamingFile \in StreamingFiles
    /\ env \in KeyConfigs
    /\ Idle
    /\ runs = 0
    /\ call = None
    /\ NoPoster
    /\ NoRate

\* -------------------------------------------------------------------------
\* A run of the script: main() -> StreamingInfoFetcher().run()
\* -------------------------------------------------------------------------

\* Mutant: update_streaming_data is called with an empty update list too.
Start_AlwaysUpdate ==
    /\ pc = "idle"
    /\ runs < MaxRuns
    /\ LET k == env IN
        /\ keys' = k
        /\ IF ~k.tmdb /\ ~k.watchmode
           THEN /\ pc' = "exited"
                /\ UNCHANGED <<movies_data, movies_to_update>>
           ELSE IF moviesFile.status # "ok"
           THEN /\ pc' = "exited"
                /\ UNCHANGED <<movies_data, movies_to_update>>
           ELSE LET self_streaming_data == None
                    todo == get_movies_to_update(moviesFile.doc, self_streaming_data,
                                                 now)
                IN  /\ movies_data' = Some(moviesFile.doc)
                    /\ movies_to_update' = IF todo.raised THEN <<>> ELSE todo.value
                    /\ pc' = IF todo.raised THEN "crashed"
                             ELSE "update"
    /\ runs' = runs + 1
    /\ startedAt' = now
    /\ fileAtStart' = streamingFile
    /\ UNCHANGED <<now, files, streaming_data, idx, existing_episodes, requests,
                   fetched, writes, call>>
    /\ UNCHANGED <<poster, rate>>

\* main() up to the call of update_streaming_data: __init__, load_movies_data,
\* get_movies_to_update. __init__ leaves self.streaming_data None, and nothing
\* assigns it before get_movies_to_update reads it.
Start ==
    /\ pc = "idle"
    /\ runs < MaxRuns
    /\ LET k == env IN
        /\ keys' = k
        /\ IF ~k.tmdb /\ ~k.watchmode
           THEN /\ pc' = "exited"
                /\ UNCHANGED <<movies_data, movies_to_update>>
           ELSE IF moviesFile.status # "ok"
           THEN /\ pc' = "exited"
                /\ UNCHANGED <<movies_data, movies_to_update>>
           ELSE LET self_streaming_data == None
                    todo == get_movies_to_update(moviesFile.doc, self_streaming_data,
                                                 now)
                IN  /\ movies_data' = Some(moviesFile.doc)
                    /\ movies_to_update' = IF todo.raised THEN <<>> ELSE todo.value
                    /\ pc' = IF todo.raised THEN "crashed"
                             ELSE IF todo.value = <<>> THEN "done" ELSE "update"
    /\ runs' = runs + 1
    /\ startedAt' = now
    /\ fileAtStart' = streamingFile
    /\ UNCHANGED <<now, files, streaming_data, idx, existing_episodes, requests,
                   fetched, writes, call>>
    /\ UNCHANGED <<poster, rate>>

\* Mutant: a malformed file is treated like a missing one.
LoadStreaming_Tolerant ==
    /\ pc = "update"
    /\ LET doc == IF streamingFile.status = "ok" THEN streamingFile.doc ELSE EmptyDoc
       IN  /\ streaming_data' = Some(doc)
           /\ existing_episodes' = DictFromList(<<>>, GetList(doc, "episodes"))
           /\ idx' = 1
           /\ pc' = "fetch"
    /\ UNCHANGED <<now, files, keys, movies_data, movies_to_update, history, call>>
    /\ UNCHANGED <<poster, rate>>

\* update_streaming_data, lines 378-384: load_streaming_data and the lookup.
\* A missing file gives an empty document; json.load's JSONDecodeError is
\* not caught anywhere.
LoadStreaming ==
    /\ pc = "update"
    /\ IF streamingFile.status = "malformed"
       THEN /\ pc' = "crashed"
            /\ UNCHANGED <<streaming_data, existing_episodes, idx>>
       ELSE LET doc == IF streamingFile.status = "ok" THEN streamingFile.doc
                       ELSE EmptyDoc
            IN  /\ streaming_data' = Some(doc)
                /\ existing_episodes' = DictFromList(<<>>, GetList(doc, "episodes"))
                /\ idx' = 1
                /\ pc' = "fetch"
    /\ UNCHANGED <<now, files, keys, movies_data, movies_to_update, history, call>>
    /\ UNCHANGED <<poster, rate>>

\* Mutant: a failed request is not caught and ends the run.
FetchItem_Abort ==
    /\ pc = "fetch"
    /\ idx <= Len(movies_to_update)
    /\ \E resp \in RunResponses :
        LET item == movies_to_update[idx]
            out == fetch_movie_streaming_info(keys, item.movie, resp, now)
        IN  /\ existing_episodes' =
                   StoreMovie(existing_episodes, item.episode_number,
                              item.movie.title, out.record)
            /\ requests' = requests \o
                   [k \in 1..Len(out.reqs) |->
                        [episode_number |-> item.episode_number,
                         title |-> item.movie.title,
                         endpoint |-> out.reqs[k]]]
            /\ fetched' = Append(fetched,
                   [episode_number |-> item.episode_number,
                    title |-> item.movie.title,
                    record |-> out.record,
                    watchmode_sources |-> out.watchmode_sources,
                    tmdb_sources |-> out.tmdb_sources,
                    failures |-> out.failures])
            /\ pc' = IF out.failures # {} THEN "crashed" ELSE pc
    /\ idx' = idx + 1
    /\ UNCHANGED <<now, files, keys, movies_data, streaming_data,
                   movies_to_update, runs, startedAt, fileAtStart, writes, call>>
    /\ UNCHANGED <<poster, rate>>

\* A loop that would save the data after every movie.
FetchItem_SaveEach ==
    /\ pc = "fetch"
    /\ idx <= Len(movies_to_update)
    /\ \E resp \in RunResponses :
        LET item == movies_to_update[idx]
            out == fetch_movie_streaming_info(keys, item.movie, resp, now)
        IN  /\ existing_episodes' =
                   StoreMovie(existing_episodes, item.episode_number,
                              item.movie.title, out.record)
            /\ requests' = requests \o
                   [k \in 1..Len(out.reqs) |->
                        [episode_number |-> item.episode_number,
                         title |-> item.movie.title,
                         endpoint |-> out.reqs[k]]]
            /\ fetched' = Append(fetched,
                   [episode_number |-> item.episode_number,
                    title |-> item.movie.title,
                    record |-> out.record,
                    watchmode_sources |-> out.watchmode_sources,
                    tmdb_sources |-> out.tmdb_sources,
                    failures |-> out.failures])
            /\ streamingFile' =
                   File("ok", [episodes |-> SortEpisodes(existing_episodes'),
                               metadata |-> NewMetadata(now, Len(existing_episodes'))])
    /\ idx' = idx + 1
    /\ UNCHANGED <<now, moviesFile, env, pc, keys, movies_data, streaming_data,
                   movies_to_update, runs, startedAt, fileAtStart, writes, call>>
    /\ UNCHANGED <<poster, rate>>

\* One iteration of the loop of update_streaming_data, lines 387-412.
FetchItem ==
    /\ pc = "fetch"
    /\ idx <= Len(movies_to_update)
    /\ \E resp \in RunResponses :
        LET item == movies_to_update[idx]
            out == fetch_movie_streaming_info(keys, item.movie, resp, now)
        IN  /\ existing_episodes' =
                   StoreMovie(existing_episodes, item.episode_number,
                              item.movie.title, out.record)
            /\ requests' = requests \o
                   [k \in 1..Len(out.reqs) |->
                        [episode_number |-> item.episode_number,
                         title |-> item.movie.title,
                         endpoint |-> out.reqs[k]]]
            /\ fetched' = Append(fetched,
                   [episode_number |-> item.episode_number,
                    title |-> item.movie.title,
                    record |-> out.record,
                    watchmode_sources |-> out.watchmode_sources,
                    tmdb_sources |-> out.tmdb_sources,
                    failures |-> out.failures])
    /\ idx' = idx + 1
    /\ UNCHANGED <<now, files, pc, keys, movies_data, streaming_data,
                   movies_to_update, runs, startedAt, fileAtStart, writes, call>>
    /\ UNCHANGED <<poster, rate>>

\* update_streaming_data, lines 414-429: sort, metadata, save.
Save ==
    /\ pc = "fetch"
    /\ idx > Len(movies_to_update)
    /\ LET updated_episodes == SortEpisodes(existing_episodes)
           doc == [episodes |-> updated_episodes,
                   metadata |-> NewMetadata(now, Len(updated_episodes))]
       IN  /\ streaming_data' = Some(doc)
           /\ streamingFile' = File("ok", doc)
    /\ writes' = writes + 1
    /\ pc' = "done"
    /\ UNCHANGED <<now, moviesFile, env, keys, movies_data, movies_to_update, idx,
                   existing_episodes, runs, startedAt, fileAtStart, requests,
                   fetched, call>>
    /\ UNCHANGED <<poster, rate>>

\* The process ends; the next run is a new process.
Terminate ==
    /\ pc \in {"done", "exited", "crashed"}
    /\ pc' = "idle"
    /\ keys' = NoKeys
    /\ movies_data' = None
    /\ streaming_data' = None
    /\ movies_to_update' = <<>>
    /\ idx' = 0
    /\ existing_episodes' = <<>>
    /\ startedAt' = 0
    /\ fileAtStart' = File("missing", EmptyDoc)
    /\ requests' = <<>>
    /\ fetched' = <<>>
    /\ writes' = 0
    /\ UNCHANGED <<now, files, runs, call>>
    /\ UNCHANGED <<poster, rate>>

\* Time passes. The clock is read by the fetches and by the save only, so it
\* is enough to let it advance between runs and between those steps.
Tick ==
    /\ pc \in {"idle", "fetch"}
    /\ now < Now0 + MaxTicks
    /\ now' = now + 1
    /\ UNCHANGED <<files, pc, memory, history, call>>
    /\ UNCHANGED <<poster, rate>>

Next == Start \/ LoadStreaming \/ FetchItem \/ Save \/ Terminate \/ Tick

Spec == Init /\ [][Next]_vars

\* ---- runs over a streaming-data file of any shape ---------------------------

\* Documents the fetcher does not write itself (an edited or concatenated
\* file): several entries with one episode number, several records with one
\* title inside an entry.
ShapedDocs ==
    {StreamDoc(<<[episode_number |-> 1,
                  movies |-> <<StoredRecord("C", TRUE, Date_0223)>>],
                 [episode_number |-> 1,
                  movies |-> <<StoredRecord("A", TRUE, Date_0224)>>]>>),
     StreamDoc(<<[episode_number |-> 2,
                  movies |-> <<StoredRecord("B", TRUE, Date_Text)>>],
                 [episode_number |-> 1,
                  movies |-> <<StoredRecord("A", TRUE, Date_0223),
                               StoredRecord("C", TRUE, Date_0224)>>],
                 [episode_number |-> 2,
                  movies |-> <<StoredRecord("C", FALSE, <<>>)>>]>>),
     StreamDoc(<<[episode_number |-> 1,
                  movies |-> <<StoredRecord("A", TRUE, Date_0224),
                               StoredRecord("A", TRUE, Date_0223),
                               StoredRecord("C", TRUE, Date_0223)>>]>>)}

InitStored ==
    /\ now = Now0
    /\ moviesFile \in MoviesFiles
    /\ streamingFile \in {File("ok", d) : d \in StreamDocs \cup ShapedDocs}
    /\ env \in KeyConfigs
    /\ Idle
    /\ runs = 0
    /\ call = None
    /\ NoPoster
    /\ NoRate

SpecStored == InitStored /\ [][Next]_vars

\* ---- runs that may end inside the loop --------------------------------------

\* The process ends while a movie of the update list is being fetched: by a
\* signal, or by an exception no handler of the call chain catches (the
\* provider methods catch requests.RequestException only, run and main catch
\* nothing; search_movie_tmdb reads movie['id'] of the first result). Nothing
\* of the loop's work is written.
Abort ==
    /\ pc = "fetch"
    /\ idx <= Len(movies_to_update)
    /\ pc' = "crashed"
    /\ UNCHANGED <<now, files, keys, movies_data, streaming_data, movies_to_update,
                   idx, existing_episodes, history, call, poster, rate>>

NextAbort == Next \/ Abort

SpecAbort == Init /\ [][NextAbort]_vars

\* -------------------------------------------------------------------------
\* Direct calls of the fetcher's methods, as a test harness makes them
\* -------------------------------------------------------------------------

SeqsUpTo(S, n) == UNION {[1..k -> S] : k \in 0..n}

\* Streaming data with at most one record per (episode, title), as
\* update_streaming_data writes it.
FreshDocs ==
    {StreamDoc(<<>>)}
      \cup {StreamDoc(<<[episode_number |-> e, movies |-> <<r>>]>>) :
               e \in EpisodeNumbers, r \in StoredRecords("A") \cup StoredRecords("B")}
      \cup {StreamDoc(<<[episode_number |-> 1, movies |-> <<r1>>],
                        [episode_number |-> 2, movies |-> <<r2>>]>>) :
               r1 \in StoredRecords("A"), r2 \in StoredRecords("A")}

\* A fetcher whose streaming data has been loaded (or not yet).
InitFresh ==
    /\ now \in Now0..(Now0 + MaxTicks)
    /\ moviesFile \in {File("ok", d) : d \in MoviesDocs \ {MoviesDoc(<<>>)}}
    /\ streamingFile = File("missing", EmptyDoc)
    /\ env = [tmdb |-> TRUE, watchmode |-> TRUE]
    /\ pc = "harness"
    /\ keys = env
    /\ movies_data = Some(moviesFile.doc)
    /\ streaming_data \in {None} \cup {Some(d) : d \in FreshDocs}
    /\ movies_to_update = <<>>
    /\ idx = 0
    /\ existing_episodes = <<>>
    /\ runs = 0
    /\ startedAt = 0
    /\ fileAtStart = File("missing", EmptyDoc)
    /\ requests = <<>>
    /\ fetched = <<>>
    /\ writes = 0
    /\ call = None
    /\ NoPoster
    /\ NoRate

CallIsRecent ==
    /\ pc = "harness"
    /\ call = None
    /\ \E movie_title \in Titles, episode_number \in EpisodeNumbers :
        call' = Some([fn |-> "is_movie_recently_updated",
                      movie_title |-> movie_title,
                      episode_number |-> episode_number,
                      out |-> is_movie_recently_updated(streaming_data, movie_title,
                                                        episode_number, now)])
    /\ UNCHANGED <<now, files, pc, memory, history>>
    /\ UNCHANGED <<poster, rate>>

CallGetMoviesToUpdate ==
    /\ pc = "harness"
    /\ call = None
    /\ call' = Some([fn |-> "get_movies_to_update",
                     out |-> get_movies_to_update(movies_data[1], streaming_data, now)])
    /\ UNCHANGED <<now, files, pc, memory, history>>
    /\ UNCHANGED <<poster, rate>>

NextFresh == CallIsRecent \/ CallGetMoviesToUpdate

SpecFresh == InitFresh /\ [][NextFresh]_vars

\* ---- fetch_movie_streaming_info and its merge ------------------------------

WmOther == [id |-> 12, year |-> Some(1999)]

AnyResponses ==
    [wm_search :
        {Failure} \cup {[ok |-> TRUE, title_results |-> r] :
                           r \in SeqsUpTo({WmHit, WmOther}, MaxList)},
     wm_sources :
        {Failure} \cup {[ok |-> TRUE, data |-> d] :
                           d \in SeqsUpTo({WmRaw("Netflix", "sub"),
                                           [name |-> "Tubi", type |-> "free"]},
                                          MaxList)},
     tmdb_search :
        {Failure, [ok |-> TRUE, results |-> <<>>],
         [ok |-> TRUE, results |-> <<[id |-> 8]>>]},
     tmdb_providers :
        {Failure, [ok |-> TRUE, US |-> <<>>],
         [ok |-> TRUE, US |-> [rent |-> <<[logo_path |-> "/logo.jpg"]>>]]}
          \cup {[ok |-> TRUE, US |-> [free |-> f, flatrate |-> g]] :
                   f \in SeqsUpTo({TmdbProvider("Tubi")}, MaxList),
                   g \in SeqsUpTo({TmdbProvider("Netflix")}, MaxList)}]

NetflixSubWm == WatchmodeSource(WmRaw("Netflix", "sub"))

NetflixSubTmdb == TmdbSource(7, TmdbProvider("Netflix"), "subscription")

TubiFreeTmdb == TmdbSource(7, TmdbProvider("Tubi"), "free")

SourceLists == SeqsUpTo({NetflixSubWm, NetflixSubTmdb, TubiFreeTmdb}, MaxList)

InitFetch ==
    /\ now \in Now0..(Now0 + MaxTicks)
    /\ moviesFile = File("missing", MoviesDoc(<<>>))
    /\ streamingFile = File("missing", EmptyDoc)
    /\ env \in KeyConfigs \ {NoKeys}
    /\ pc = "harness"
    /\ keys = env
    /\ movies_data = None
    /\ streaming_data = None
    /\ movies_to_update = <<>>
    /\ idx = 0
    /\ existing_episodes = <<>>
    /\ runs = 0
    /\ startedAt = 0
    /\ fileAtStart = File("missing", EmptyDoc)
    /\ requests = <<>>
    /\ fetched = <<>>
    /\ writes = 0
    /\ call = None
    /\ NoPoster
    /\ NoRate

CallFetch ==
    /\ pc = "harness"
    /\ call = None
    /\ \E movie \in {MovieA, MovieB}, resp \in AnyResponses :
        call' = Some([fn |-> "fetch_movie_streaming_info",
                      movie |-> movie,
                      out |-> fetch_movie_streaming_info(keys, movie, resp, now)])
    /\ UNCHANGED <<now, files, pc, memory, history>>
    /\ UNCHANGED <<poster, rate>>

CallMerge ==
    /\ pc = "harness"
    /\ call = None
    /\ \E a \in SourceLists, b \in SourceLists :
        call' = Some([fn |-> "merge", watchmode_sources |-> a, tmdb_sources |-> b,
                      out |-> MergeSources(a, b)])
    /\ UNCHANGED <<now, files, pc, memory, history>>
    /\ UNCHANGED <<poster, rate>>

NextFetch == CallFetch \/ CallMerge

SpecFetch == InitFetch /\ [][NextFetch]_vars

\* -------------------------------------------------------------------------
\* generate_html.py: the streaming sources of a movie on the page.
\* -------------------------------------------------------------------------

MaxSources == 3

\* str.lower() on the type names of the model.
LowerType(source_type) ==
    CASE source_type = "Free" -> "free"
      [] source_type = "RENT" -> "rent"
      [] OTHER -> source_type

\* format_source_type
format_source_type(source_type) == LowerType(source_type)

\* source.get("type", "")
TypeOf(source) == IF "type" \in DOMAIN source THEN source.type ELSE ""

\* priority_order.get(x.get("type", "").lower(), 4)
SourcePriority(x) ==
    CASE LowerType(TypeOf(x)) = "free" -> 0
      [] LowerType(TypeOf(x)) = "subscription" -> 1
      [] LowerType(TypeOf(x)) = "rent" -> 2
      [] LowerType(TypeOf(x)) = "buy" -> 3
      [] OTHER -> 4

\* sorted(sources, key=...): stable.
RECURSIVE InsertByPriority(_, _)
InsertByPriority(sorted, x) ==
    IF sorted = <<>> THEN <<x>>
    ELSE IF SourcePriority(Head(sorted)) <= SourcePriority(x)
         THEN <<Head(sorted)>> \o InsertByPriority(Tail(sorted), x)
         ELSE <<x>> \o sorted

RECURSIVE sort_streaming_sources(_)
sort_streaming_sources(sources) ==
    IF sources = <<>> THEN <<>>
    ELSE InsertByPriority(sort_streaming_sources(SubSeq(sources, 1, Len(sources) - 1)),
                          sources[Len(sources)])

\* sources_by_type[source_type]: the sources of one formatted type, in the
\* order of the sorted list; an empty list stands for a missing key.
SourcesByType(sorted_sources, source_type) ==
    SelectSeq(sorted_sources, LAMBDA source : format_source_type(TypeOf(source)) = source_type)

\* The element written for one source, lines 431-452: a link if the source has
\* a web_url, a span otherwise, with the logo if there is one.
SourceHtml(source) ==
    [tag |-> IF UrlOr(source, "web_url") # EmptyUrl THEN "a" ELSE "span",
     href |-> UrlOr(source, "web_url"),
     logo |-> IF "logo_url" \in DOMAIN source
                    /\ source.logo_url # [base |-> "", path |-> ""]
              THEN Some(source.logo_url) ELSE None,
     text |-> IF "name" \in DOMAIN source THEN source.name ELSE "Unknown Service"]

\* section_label = source_type.upper()
SectionLabel(source_type) ==
    CASE source_type = "free" -> "FREE"
      [] source_type = "subscription" -> "SUBSCRIPTION"
      [] source_type = "rent" -> "RENT"
      [] source_type = "buy" -> "BUY"

\* The loop over priority_order, lines 420-460: one section per listed type
\* that is a key of sources_by_type.
RECURSIVE Sections(_, _)
Sections(priority_order, sorted_sources) ==
    IF priority_order = <<>> THEN <<>>
    ELSE LET source_type == Head(priority_order)
             sources == SourcesByType(sorted_sources, source_type)
         IN  (IF sources # <<>>
              THEN <<[label |-> SectionLabel(source_type),
                      sources |-> [i \in 1..Len(sources) |-> SourceHtml(sources[i])]]>>
              ELSE <<>>)
             \o Sections(Tail(priority_order), sorted_sources)

\* generate_movie_html: the heading and, if the movie has stored sources, the
\* streaming-sources block with its sections.
generate_movie_html(sd, movie, episode_number) ==
    LET title == IF "title" \in DOMAIN movie THEN movie.title ELSE "Unknown"
        streaming_sources == find_streaming_data(sd, episode_number, title)
    IN  [title |-> title,
         streaming_sources |->
             IF streaming_sources # <<>>
             THEN Some(Sections(<<"free", "subscription", "rent", "buy">>,
                                sort_streaming_sources(streaming_sources)))
             ELSE None]

\* Stored sources: of the four listed types, of a type Watchmode passes
\* through unmapped ("tve"), with a capitalised type, without a type.
RenderSource(name, type, url) ==
    [name |-> name, type |-> type, region |-> "US", web_url |-> url,
     logo_url |-> [base |-> "", path |-> ""]]

RenderSources ==
    {StoredSource,
     RenderSource("Tubi", "Free", NetflixUrl),
     RenderSource("Apple TV", "rent", EmptyUrl),
     RenderSource("Amazon", "buy", NetflixUrl),
     RenderSource("HBO", "tve", NetflixUrl),
     RenderSource("Pluto", "free", EmptyUrl),
     [name |-> "Kanopy", web_url |-> NetflixUrl]}

RenderDocs ==
    {StreamDoc(<<[episode_number |-> 1,
                  movies |-> <<[title |-> "A", year |-> 1980,
                                streaming_sources |-> sources,
                                data_sources |-> <<"watchmode">>,
                                last_updated |-> Date_0301]>>]>>) :
        sources \in SeqsUpTo(RenderSources, MaxSources)}

\* HTMLGenerator after load_data: the streaming data is in memory.
InitRender ==
    /\ now = Now0
    /\ moviesFile = File("ok", MoviesDoc(<<[episode_number |-> 1,
                                            movies |-> <<MovieA, MovieB>>]>>))
    /\ streamingFile \in {File("ok", d) : d \in RenderDocs}
    /\ env = NoKeys
    /\ pc = "harness"
    /\ keys = env
    /\ movies_data = Some(moviesFile.doc)
    /\ streaming_data = Some(streamingFile.doc)
    /\ movies_to_update = <<>>
    /\ idx = 0
    /\ existing_episodes = <<>>
    /\ runs = 0
    /\ startedAt = 0
    /\ fileAtStart = File("missing", EmptyDoc)
    /\ requests = <<>>
    /\ fetched = <<>>
    /\ writes = 0
    /\ call = None
    /\ NoPoster
    /\ NoRate

CallSortStreamingSources ==
    /\ pc = "harness"
    /\ call = None
    /\ \E movie \in {MovieA, MovieB} :
        LET sources == find_streaming_data(streaming_data, 1, movie.title)
        IN  call' = Some([fn |-> "sort_streaming_sources", sources |-> sources,
                          out |-> sort_streaming_sources(sources)])
    /\ UNCHANGED <<now, files, pc, memory, history, poster, rate>>

CallGenerateMovieHtml ==
    /\ pc = "harness"
    /\ call = None
    /\ \E movie \in {MovieA, MovieB} :
        call' = Some([fn |-> "generate_movie_html", movie |-> movie,
                      sources |-> find_streaming_data(streaming_data, 1, movie.title),
                      out |-> generate_movie_html(streaming_data, movie, 1)])
    /\ UNCHANGED <<now, files, pc, memory, history, poster, rate>>

NextRender == CallSortStreamingSources \/ CallGenerateMovieHtml

SpecRender == InitRender /\ [][NextRender]_vars

\* -------------------------------------------------------------------------
\* cleanup_movies.py. A text is the sequence of its words, markers and
\* whitespace characters (" ").
\* -------------------------------------------------------------------------

\* str(n) for n >= 0
RECURSIVE IntStr(_)
IntStr(n) == IF n < 10 THEN <<Digits[n + 1]>>
             ELSE IntStr(n \div 10) \o <<Digits[(n % 10) + 1]>>

\* s.lstrip()
RECURSIVE LStrip(_)
LStrip(text) == IF text # <<>> /\ Head(text) = " " THEN LStrip(Tail(text)) ELSE text

\* s.rstrip()
RECURSIVE RStrip(_)
RStrip(text) ==
    IF text # <<>> /\ text[Len(text)] = " "
    THEN RStrip(SubSeq(text, 1, Len(text) - 1))
    ELSE text

\* s.strip()
Strip(text) == RStrip(LStrip(text))

\* re.sub(r'\s*<marker>\s*', '', text): every occurrence of the marker goes,
\* with the whitespace around it.
RECURSIVE ReSubMarker(_, _)
ReSubMarker(text, marker) ==
    IF text = <<>> THEN <<>>
    ELSE LET rest == LStrip(text)
         IN  IF rest # <<>> /\ Head(rest) = marker
             THEN ReSubMarker(LStrip(Tail(rest)), marker)
             ELSE <<Head(text)>> \o ReSubMarker(Tail(text), marker)

clean_episode_title(title) ==
    ReSubMarker(ReSubMarker(ReSubMarker(Strip(title), "(LIVE!)"), "(Vault Release)"),
                "(Watch-Along)")

\* re.search(r'discussing\s+(.+)', description).group(1), None without a match.
RECURSIVE DiscussingWhat(_)
DiscussingWhat(description) ==
    IF description = <<>> THEN None
    ELSE IF Head(description) = "discussing"
         THEN LET after == Tail(description)
                  rest == LStrip(after)
              IN  IF after # <<>> /\ Head(after) = " " /\ rest # <<>> THEN Some(rest)
                  ELSE IF Len(after) >= 2 /\ rest = <<>> THEN Some(<<" ">>)
                  ELSE DiscussingWhat(after)
         ELSE DiscussingWhat(Tail(description))

clean_description(description) ==
    IF Len(description) >= 3
         /\ SubSeq(description, 1, 3) = <<"Episode", " ", "discussing">>
    THEN description
    ELSE IF DiscussingWhat(description) # None
         THEN <<"Episode", " ", "discussing", " ">> \o DiscussingWhat(description)[1]
         ELSE description

\* title_mapping.get(title, title) after strip(); all entries of the mapping
\* but these map a title to itself.
clean_movie_title(title) ==
    LET stripped == Strip(title)
    IN  CASE stripped = <<"Halloween", " ", "(2018)">> -> <<"Halloween">>
          [] stripped = <<"Speak No Evil", " ", "(US Remake)">> -> <<"Speak No Evil">>
          [] stripped = <<"Evil Dead", " ", "(2013)">> -> <<"Evil Dead">>
          [] stripped = <<"Inside", " ", "(2007)">> -> <<"Inside">>
          [] OTHER -> stripped

\* A year is [int |-> n] or, when the document holds a string, [str |-> s].
CleanYear(movie) ==
    LET year == IF "year" \in DOMAIN movie THEN movie.year ELSE [int |-> 2024]
    IN  IF "int" \notin DOMAIN year THEN [int |-> 2024]
        ELSE IF year.int < 1900 \/ year.int > 2030 THEN [int |-> 2024]
        ELSE year

MovieNotes(episode_number) ==
    <<"Main movie discussed in Episode", " ">> \o IntStr(episode_number)

clean_movies_list(ms, episode_number) ==
    [i \in 1..Len(ms) |->
        [title |-> clean_movie_title(ms[i].title),
         year |-> CleanYear(ms[i]),
         imdb_id |-> IF "imdb_id" \in DOMAIN ms[i] THEN ms[i].imdb_id ELSE <<>>,
         notes |-> MovieNotes(episode_number),
         episode_reference |-> episode_number]]

\* A key that would leave the title out.
EpisodeKey_NumberOnly(episode) == IntStr(episode.episode_number)

\* f"{episode['episode_number']}_{episode['title']}"
EpisodeKey(episode) == IntStr(episode.episode_number) \o <<"_">> \o episode.title

RECURSIVE CleanLoop(_, _)
CleanLoop(episodes, seen_episodes) ==
    IF episodes = <<>> THEN <<>>
    ELSE LET episode == Head(episodes)
         IN  IF EpisodeKey(episode) \notin seen_episodes
             THEN <<[episode_number |-> episode.episode_number,
                     title |-> clean_episode_title(episode.title),
                     air_date |-> episode.air_date,
                     description |-> clean_description(episode.description),
                     movies |-> clean_movies_list(episode.movies,
                                                  episode.episode_number)]>>
                  \o CleanLoop(Tail(episodes),
                               seen_episodes \cup {EpisodeKey(episode)})
             ELSE CleanLoop(Tail(episodes), seen_episodes)

clean_episode_data(episodes) == CleanLoop(episodes, {})

\* parse_date: the date's midnight, 2024-01-01 for a string strptime rejects.
parse_date(date_str) ==
    IF StrPTime(date_str).raised THEN Ordinal(2024, 1, 1) * TicksPerDay
    ELSE StrPTime(date_str).ticks

\* sorted(episodes, key=...): stable.
RECURSIVE InsertByDate(_, _)
InsertByDate(sorted, e) ==
    IF sorted = <<>> THEN <<e>>
    ELSE IF parse_date(Head(sorted).air_date) <= parse_date(e.air_date)
         THEN <<Head(sorted)>> \o InsertByDate(Tail(sorted), e)
         ELSE <<e>> \o sorted

RECURSIVE sort_episodes_by_date(_)
sort_episodes_by_date(episodes) ==
    IF episodes = <<>> THEN <<>>
    ELSE InsertByDate(sort_episodes_by_date(SubSeq(episodes, 1, Len(episodes) - 1)),
                      episodes[Len(episodes)])

\* Mutant: the episodes are renumbered, their movies are left as they are.
update_episode_numbers_KeepReferences(episodes) ==
    [i \in 1..Len(episodes) |-> [episodes[i] EXCEPT !.episode_number = i]]

update_episode_numbers(episodes) ==
    [i \in 1..Len(episodes) |->
        [episodes[i] EXCEPT
            !.episode_number = i,
            !.movies = [m \in 1..Len(episodes[i].movies) |->
                           [f \in DOMAIN episodes[i].movies[m]
                                    \cup {"notes", "episode_reference"} |->
                                IF f = "notes" THEN MovieNotes(i)
                                ELSE IF f = "episode_reference" THEN i
                                ELSE episodes[i].movies[m][f]]]]]

\* main, lines 141-156: the document written back.
CleanedDocument(data, t) ==
    LET final_episodes ==
            update_episode_numbers(sort_episodes_by_date(
                clean_episode_data(data.episodes)))
    IN  [data EXCEPT
            !.episodes = final_episodes,
            !.metadata = [f \in DOMAIN data.metadata
                                  \cup {"total_episodes", "last_updated", "sort_order"} |->
                             IF f = "total_episodes" THEN Len(final_episodes)
                             ELSE IF f = "last_updated" THEN StrFTime(t)
                             ELSE IF f = "sort_order" THEN "oldest_to_newest"
                             ELSE data.metadata[f]]]

\* ---- the documents the cleanup is given ------------------------------------

Halloween == [title |-> <<" ", "Halloween", " ", "(2018)">>, year |-> [int |-> 2018],
              episode_reference |-> 9]

Jaws == [title |-> <<"Jaws">>, year |-> [str |-> <<"1", "9", "7", "5">>],
         imdb_id |-> <<"t", "t", "1">>]

Nosferatu == [title |-> <<"Nosferatu">>, year |-> [int |-> 1899]]

CleanupEpisode(n, title, air_date, ms) ==
    [episode_number |-> n, title |-> title, air_date |-> air_date,
     description |-> <<"Hosts", " ", "discussing", " ", " ", "it">>, movies |-> ms]

CleanupEpisodes ==
    {CleanupEpisode(1, <<"Pilot">>, Date_0301, <<Halloween>>),
     CleanupEpisode(1, <<"Pilot">>, Date_0223, <<Jaws>>),
     CleanupEpisode(1, <<"Pilot", " ", "(LIVE!)">>, Date_0224, <<Jaws, Nosferatu>>),
     CleanupEpisode(7, <<" ", "Special">>, Date_Text, <<Nosferatu>>),
     CleanupEpisode(2, <<"Second">>, Date_0223, <<>>),
     CleanupEpisode(12, <<"Twelfth">>, Date_0309, <<Halloween, Jaws>>)}

CleanupDocs ==
    {[episodes |-> episodes, metadata |-> [total_episodes |-> 99, source |-> "feed"]] :
        episodes \in SeqsUpTo(CleanupEpisodes, MaxEpisodes)}

InitCleanup ==
    /\ now \in Now0..(Now0 + MaxTicks)
    /\ moviesFile \in {File("ok", d) : d \in CleanupDocs}
    /\ streamingFile = File("missing", EmptyDoc)
    /\ env = NoKeys
    /\ pc = "harness"
    /\ keys = env
    /\ movies_data = None
    /\ streaming_data = None
    /\ movies_to_update = <<>>
    /\ idx = 0
    /\ existing_episodes = <<>>
    /\ runs = 0
    /\ startedAt = 0
    /\ fileAtStart = File("missing", EmptyDoc)
    /\ requests = <<>>
    /\ fetched = <<>>
    /\ writes = 0
    /\ call = None
    /\ NoPoster
    /\ NoRate

CallCleanEpisodeData ==
    /\ pc = "harness"
    /\ call = None
    /\ call' = Some([fn |-> "clean_episode_data",
                     episodes |-> moviesFile.doc.episodes,
                     out |-> clean_episode_data(moviesFile.doc.episodes)])
    /\ UNCHANGED <<now, files, pc, memory, history, poster, rate>>

CallSortEpisodesByDate ==
    /\ pc = "harness"
    /\ call = None
    /\ call' = Some([fn |-> "sort_episodes_by_date",
                     episodes |-> moviesFile.doc.episodes,
                     out |-> sort_episodes_by_date(moviesFile.doc.episodes)])
    /\ UNCHANGED <<now, files, pc, memory, history, poster, rate>>

CallUpdateEpisodeNumbers ==
    /\ pc = "harness"
    /\ call = None
    /\ call' = Some([fn |-> "update_episode_numbers",
                     episodes |-> moviesFile.doc.episodes,
                     out |-> update_episode_numbers(moviesFile.doc.episodes)])
    /\ UNCHANGED <<now, files, pc, memory, history, poster, rate>>

\* main(): data/movies.json is read, cleaned, sorted, renumbered and written.
CleanupMain ==
    /\ pc = "harness"
    /\ IF call = None THEN TRUE ELSE call[1].fn = "main"
    /\ runs < MaxRuns
    /\ moviesFile' = File("ok", CleanedDocument(moviesFile.doc, now))
    /\ call' = Some([fn |-> "main", data |-> moviesFile.doc])
    /\ runs' = runs + 1
    /\ UNCHANGED <<now, streamingFile, env, pc, memory, startedAt, fileAtStart, requests,
                   fetched, writes, poster, rate>>

NextCleanup ==
    \/ CallCleanEpisodeData \/ CallSortEpisodesByDate \/ CallUpdateEpisodeNumbers
    \/ CleanupMain

SpecCleanup == InitCleanup /\ [][NextCleanup]_vars

\* -------------------------------------------------------------------------
\* The rate limiter of the fetcher
\* -------------------------------------------------------------------------

\* self.min_request_interval = 0.02, in units of 10 ms.
min_request_interval == 2

\* Mutant: _rate_limit never sleeps.
rate_limit_sleep_time_None(current_time, last) == 0

\* _rate_limit, lines 64-69: the argument of time.sleep, 0 when it is not called.
rate_limit_sleep_time(current_time, last) ==
    LET time_since_last == current_time - last
    IN  IF time_since_last < min_request_interval
        THEN min_request_interval - time_since_last
        ELSE 0

ProviderMethods == {"search_movie_watchmode", "get_watch_providers_watchmode",
                    "search_movie_tmdb", "get_watch_providers_tmdb"}

\* A fetcher in the middle of update_streaming_data; time.time() is far from 0.
InitRate ==
    /\ now = Now0
    /\ moviesFile = File("missing", MoviesDoc(<<>>))
    /\ streamingFile = File("missing", EmptyDoc)
    /\ env = [tmdb |-> TRUE, watchmode |-> TRUE]
    /\ pc = "ready"
    /\ keys = env
    /\ movies_data = None
    /\ streaming_data = None
    /\ movies_to_update = <<>>
    /\ idx = 0
    /\ existing_episodes = <<>>
    /\ runs = 0
    /\ startedAt = 0
    /\ fileAtStart = File("missing", EmptyDoc)
    /\ requests = <<>>
    /\ fetched = <<>>
    /\ writes = 0
    /\ call = None
    /\ NoPoster
    /\ time = 2 * min_request_interval
    /\ last_request_time = 0
    /\ starts = <<>>

\* A provider method is entered and calls self._rate_limit(): time.sleep
\* returns after the time asked for, or later; last_request_time is the
\* clock after it.
RateLimit ==
    /\ pc = "ready"
    /\ Len(starts) < MaxRequests
    /\ \E fn \in ProviderMethods, late \in 0..1 :
        /\ call' = Some([fn |-> fn])
        /\ time' = time + rate_limit_sleep_time(time, last_request_time) + late
    /\ time' <= 2 * min_request_interval + MaxElapsed
    /\ last_request_time' = time'
    /\ pc' = "limited"
    /\ UNCHANGED <<now, files, memory, history, poster, starts>>

\* requests.get is called.
SendRequest ==
    /\ pc = "limited"
    /\ starts' = Append(starts, [fn |-> call[1].fn, at |-> time,
                                 stamp |-> last_request_time])
    /\ pc' = "sent"
    /\ UNCHANGED <<now, files, memory, history, call, poster, time, last_request_time>>

\* The response, or the exception, arrives and the method returns.
ReceiveResponse ==
    /\ pc = "sent"
    /\ pc' = "ready"
    /\ call' = None
    /\ UNCHANGED <<now, files, memory, history, poster, rate>>

\* Time passes, whatever the process is doing.
RateTick ==
    /\ pc \in {"ready", "limited", "sent"}
    /\ time < 2 * min_request_interval + MaxElapsed
    /\ time' = time + 1
    /\ UNCHANGED <<now, files, pc, memory, history, call, poster, last_request_time,
                   starts>>

NextRate == RateLimit \/ SendRequest \/ ReceiveResponse \/ RateTick

SpecRate == InitRate /\ [][NextRate]_vars

\* -------------------------------------------------------------------------
\* PosterCacheManager (cache_movie_posters.py)
\* -------------------------------------------------------------------------

\* cleanup_old_posters(30) in main.
PosterMaxAgeDays == 30

PosterSizes == <<"w342", "w500", "w780">>

\* str.lower() on the titles of the model.
Lower(title) ==
    CASE title = "A" -> "a"
      [] title = "B" -> "b"
      [] OTHER -> title

\* movie.get("year"): the lookup key holds None for a movie without a year.
YearKey(movie) == IF "year" \in DOMAIN movie THEN Some(movie.year) ELSE None

\* tmdb_lookup[key] = tmdb_id, on a dict kept as the list of its items.
LookupPut(d, key, tmdb_id) ==
    IF \E k \in 1..Len(d) : d[k].key = key
    THEN [k \in 1..Len(d) |-> IF d[k].key = key THEN [key |-> key, tmdb_id |-> tmdb_id]
                              ELSE d[k]]
    ELSE Append(d, [key |-> key, tmdb_id |-> tmdb_id])

\* tmdb_lookup.get(key)
LookupGet(d, key) ==
    IF \E k \in 1..Len(d) : d[k].key = key
    THEN Some((CHOOSE item \in {d[k] : k \in 1..Len(d)} : item.key = key).tmdb_id)
    ELSE None

\* Lines 75-79: the records of one episode of the streaming data.
RECURSIVE LookupOfMovies(_, _, _)
LookupOfMovies(d, episode_num, records) ==
    IF records = <<>> THEN d
    ELSE LET movie == Head(records)
             tmdb_id == Get(movie, "tmdb_id")
         IN  LookupOfMovies(IF Truthy(tmdb_id)
                            THEN LookupPut(d, <<episode_num, Lower(movie.title),
                                                YearKey(movie)>>, tmdb_id[1])
                            ELSE d,
                            episode_num, Tail(records))

\* Lines 72-79.
RECURSIVE TmdbLookup(_, _)
TmdbLookup(d, episodes) ==
    IF episodes = <<>> THEN d
    ELSE TmdbLookup(LookupOfMovies(d, Head(episodes).episode_number,
                                   GetList(Head(episodes), "movies")),
                    Tail(episodes))

\* Lines 85-100: the movies of one episode that have an id in the lookup.
RECURSIVE MoviesWithIdsOf(_, _, _)
MoviesWithIdsOf(tmdb_lookup, episode_num, ms) ==
    IF ms = <<>> THEN <<>>
    ELSE LET movie == Head(ms)
             tmdb_id == LookupGet(tmdb_lookup,
                                  <<episode_num, Lower(movie.title), YearKey(movie)>>)
         IN  (IF Truthy(tmdb_id)
              THEN <<[title |-> movie.title, year |-> YearKey(movie),
                      episode |-> episode_num, tmdb_id |-> tmdb_id[1]]>>
              ELSE <<>>)
             \o MoviesWithIdsOf(tmdb_lookup, episode_num, Tail(ms))

\* Lines 82-100.
RECURSIVE MoviesWithIds(_, _)
MoviesWithIds(tmdb_lookup, episodes) ==
    IF episodes = <<>> THEN <<>>
    ELSE MoviesWithIdsOf(tmdb_lookup, Head(episodes).episode_number,
                         GetList(Head(episodes), "movies"))
         \o MoviesWithIds(tmdb_lookup, Tail(episodes))

\* Lines 103-108: the first movie of every TMDB id.
RECURSIVE UniqueMovies(_, _)
UniqueMovies(movies_with_ids, seen_ids) ==
    IF movies_with_ids = <<>> THEN <<>>
    ELSE IF Head(movies_with_ids).tmdb_id \notin seen_ids
         THEN <<Head(movies_with_ids)>>
              \o UniqueMovies(Tail(movies_with_ids),
                              seen_ids \cup {Head(movies_with_ids).tmdb_id})
         ELSE UniqueMovies(Tail(movies_with_ids), seen_ids)

\* Mutant: the list is returned without the pass that removes duplicates.
get_all_movies_with_tmdb_ids_NoDedup(md, sd) ==
    MoviesWithIds(TmdbLookup(<<>>, GetList(sd, "episodes")), GetList(md, "episodes"))

get_all_movies_with_tmdb_ids(md, sd) ==
    UniqueMovies(MoviesWithIds(TmdbLookup(<<>>, GetList(sd, "episodes")),
                               GetList(md, "episodes")),
                 {})

\* f"{tmdb_id}_{size}.jpg"
get_poster_filename(tmdb_id, size) == [tmdb_id |-> tmdb_id, size |-> size, ext |-> "jpg"]

\* f"posters/{filename}"
PosterPath(filename) == [dir |-> "posters", file |-> filename]

\* Mutant: no file is ever found in the cache.
Exists_Never(dir, filename) == FALSE

\* A directory is the set of its files, each with a name, a modification time
\* and a content; Path.exists() of a name in a directory that may be missing.
Exists(dir, filename) == dir # None /\ \E f \in dir[1] : f.name = filename

\* Lines 142-163: the loop over the sizes. st = [dir, reqs, cached_posters].
RECURSIVE DownloadSizes(_, _, _, _, _)
DownloadSizes(st, tmdb_id, sizes, image, t) ==
    IF sizes = <<>> THEN st
    ELSE LET size == Head(sizes)
             filename == get_poster_filename(tmdb_id, size)
             cached == [size |-> size, path |-> PosterPath(filename)]
             req == [kind |-> "image", tmdb_id |-> tmdb_id, size |-> size]
             next ==
                 IF Exists(st.dir, filename)
                 THEN [st EXCEPT !.cached_posters = Append(@, cached)]
                 ELSE IF image[size] = "ok" /\ st.dir # None
                 THEN [dir |-> Some({f \in st.dir[1] : f.name # filename} \cup
                                    {[name |-> filename, mtime |-> t,
                                      content |-> "downloaded"]}),
                       reqs |-> Append(st.reqs, req),
                       cached_posters |-> Append(st.cached_posters, cached)]
                 ELSE [st EXCEPT !.reqs = Append(@, req)]
         IN  DownloadSizes(next, tmdb_id, Tail(sizes), image, t)

\* download_poster: resp.details is what the movie-details request gives
\* ("ok", "no_poster_path", "status_404", "exception"), resp.image[size] what
\* the download of one size gives ("ok", "status_404", "exception"). The
\* result is the directory afterwards, the requests issued and the dict
\* returned (as the list of its items).
download_poster(tmdb_api_key, tmdb_id, dir, resp, t) ==
    IF ~tmdb_api_key THEN [dir |-> dir, reqs |-> <<>>, cached_posters |-> <<>>]
    ELSE LET details == <<[kind |-> "details", tmdb_id |-> tmdb_id, size |-> ""]>>
         IN  IF resp.details # "ok"
             THEN [dir |-> dir, reqs |-> details, cached_posters |-> <<>>]
             ELSE DownloadSizes([dir |-> dir, reqs |-> details,
                                 cached_posters |-> <<>>],
                                tmdb_id, PosterSizes, resp.image, t)

\* Mutant: files exactly PosterMaxAgeDays old are removed too.
cleanup_old_posters_Inclusive(dir, days, t) ==
    IF dir = None THEN dir
    ELSE LET cutoff_time == t - days * TicksPerDay
         IN  Some({f \in dir[1] : ~(f.name.ext = "jpg" /\ f.mtime <= cutoff_time)})

\* cleanup_old_posters(days): the directory afterwards.
cleanup_old_posters(dir, days, t) ==
    IF dir = None THEN dir
    ELSE LET cutoff_time == t - days * TicksPerDay
         IN  Some({f \in dir[1] : ~(f.name.ext = "jpg" /\ f.mtime < cutoff_time)})

\* ---- the data of a poster run ---------------------------------------------

PosterRecord(title, year, tmdb_id) ==
    [title |-> title, year |-> year, tmdb_id |-> tmdb_id, streaming_sources |-> <<>>]

PosterMoviesDocs ==
    {MoviesDoc(<<[episode_number |-> 1, movies |-> <<MovieA, MovieB>>],
                 [episode_number |-> 2, movies |-> <<MovieA>>]>>),
     MoviesDoc(<<[episode_number |-> 1, movies |-> <<MovieA>>],
                 [episode_number |-> 2, movies |-> <<[title |-> "B"]>>]>>)}

PosterStreamDocs ==
    {StreamDoc(<<>>),
     StreamDoc(<<[episode_number |-> 1,
                  movies |-> <<PosterRecord("A", 1980, Some(7)),
                               PosterRecord("b", 1999, Some(8))>>],
                 [episode_number |-> 2,
                  movies |-> <<PosterRecord("A", 1980, Some(7))>>]>>),
     StreamDoc(<<[episode_number |-> 1,
                  movies |-> <<PosterRecord("A", 1980, None)>>],
                 [episode_number |-> 2,
                  movies |-> <<PosterRecord("A", 1999, Some(7)),
                               [title |-> "B", tmdb_id |-> Some(8)]>>]>>),
     StreamDoc(<<[episode_number |-> 1,
                  movies |-> <<PosterRecord("A", 1980, Some(7)),
                               PosterRecord("a", 1980, Some(8))>>],
                 [episode_number |-> 2,
                  movies |-> <<PosterRecord("A", 1980, Some(8))>>]>>)}

PosterFile(tmdb_id, size, mtime) ==
    [name |-> get_poster_filename(tmdb_id, size), mtime |-> mtime, content |-> "old"]

\* Modification times around the age limit, seen from the first clock value.
Expired == Now0 - PosterMaxAgeDays * TicksPerDay - 1

AtLimit == Now0 - PosterMaxAgeDays * TicksPerDay

Recent == Now0 - 1

CacheDirs ==
    {None,
     Some({}),
     Some({PosterFile(7, "w342", Expired), PosterFile(7, "w500", Recent),
           [name |-> [tmdb_id |-> 0, size |-> "readme", ext |-> "txt"],
            mtime |-> Expired, content |-> "old"]}),
     Some({PosterFile(7, "w342", AtLimit), PosterFile(7, "w500", AtLimit),
           PosterFile(7, "w780", AtLimit), PosterFile(9, "w500", Expired)}),
     Some({PosterFile(8, "w780", Expired), PosterFile(7, "w342", Recent),
           [name |-> [tmdb_id |-> 0, size |-> "cover", ext |-> "jpg"],
            mtime |-> Expired, content |-> "old"]})}

\* What TMDB answers to the requests of one download_poster call.
PosterResponses ==
    {[details |-> d, image |-> [size \in {"w342", "w500", "w780"} |-> "ok"]] :
        d \in {"no_poster_path", "status_404", "exception"}}
      \cup
    {[details |-> "ok", image |-> i] :
        i \in {[size \in {"w342", "w500", "w780"} |-> "ok"],
               [size \in {"w342", "w500", "w780"} |-> "status_404"],
               [size \in {"w342", "w500", "w780"} |-> "exception"],
               [size \in {"w342", "w500", "w780"} |->
                    IF size = "w500" THEN "status_404" ELSE "ok"]}}

\* ---- a run of cache_movie_posters.py: main() -------------------------------

fetcher == <<movies_to_update, existing_episodes, fileAtStart, requests, fetched,
             writes, call>>

InitPoster ==
    /\ now = Now0
    /\ moviesFile \in {File("ok", d) : d \in PosterMoviesDocs}
                        \cup {File("missing", MoviesDoc(<<>>))}
    /\ streamingFile \in {File("ok", d) : d \in PosterStreamDocs}
                           \cup {File("malformed", EmptyDoc)}
    /\ env \in {[tmdb |-> TRUE, watchmode |-> FALSE], NoKeys}
    /\ Idle
    /\ runs = 0
    /\ call = None
    /\ cache_dir \in CacheDirs
    /\ manifestFile = None
    /\ movies = <<>>
    /\ poster_manifest = <<>>
    /\ downloads = <<>>
    /\ NoRate

\* PosterCacheManager() and load_data(): an exception of either open or
\* json.load is logged and raised again.
PosterStart ==
    /\ pc = "idle"
    /\ runs < MaxRuns
    /\ keys' = env
    /\ IF moviesFile.status # "ok" \/ streamingFile.status # "ok"
       THEN /\ pc' = "crashed"
            /\ UNCHANGED <<movies_data, streaming_data>>
       ELSE /\ movies_data' = Some(moviesFile.doc)
            /\ streaming_data' = Some(streamingFile.doc)
            /\ pc' = "loaded"
    /\ runs' = runs + 1
    /\ startedAt' = now
    /\ UNCHANGED <<now, files, idx, fetcher, poster, rate>>

\* cache_manager.cleanup_old_posters(30)
PosterCleanup ==
    /\ pc = "loaded"
    /\ cache_dir' = cleanup_old_posters(cache_dir, PosterMaxAgeDays, now)
    /\ downloads' = Append(downloads,
           [kind |-> "cleanup", before |-> cache_dir, after |-> cache_dir', at |-> now])
    /\ pc' = "cleaned"
    /\ UNCHANGED <<now, files, keys, movies_data, streaming_data, idx, runs, startedAt,
                   fetcher, manifestFile, movies, poster_manifest, rate>>

\* A cache_all_posters that would start from the manifest on disk instead of {}.
PosterBegin_KeepManifest ==
    /\ pc = "cleaned"
    /\ IF ~keys.tmdb
       THEN /\ pc' = "done"
            /\ UNCHANGED <<cache_dir, movies, idx>>
       ELSE /\ movies' = get_all_movies_with_tmdb_ids(movies_data[1], streaming_data[1])
            /\ cache_dir' = IF cache_dir = None THEN Some({}) ELSE cache_dir
            /\ idx' = 1
            /\ pc' = "caching"
    /\ poster_manifest' = IF manifestFile = None THEN <<>> ELSE manifestFile[1]
    /\ UNCHANGED <<now, files, keys, movies_data, streaming_data, runs, startedAt,
                   fetcher, manifestFile, downloads, rate>>

\* cache_all_posters, lines 179-188: without a key it returns at once;
\* otherwise the movies are collected and the directory is created.
PosterBegin ==
    /\ pc = "cleaned"
    /\ IF ~keys.tmdb
       THEN /\ pc' = "done"
            /\ UNCHANGED <<cache_dir, movies, idx>>
       ELSE /\ movies' = get_all_movies_with_tmdb_ids(movies_data[1], streaming_data[1])
            /\ cache_dir' = IF cache_dir = None THEN Some({}) ELSE cache_dir
            /\ idx' = 1
            /\ pc' = "caching"
    /\ poster_manifest' = <<>>
    /\ UNCHANGED <<now, files, keys, movies_data, streaming_data, runs, startedAt,
                   fetcher, manifestFile, downloads, rate>>

\* One iteration of the loop of cache_all_posters, lines 190-205.
PosterItem ==
    /\ pc = "caching"
    /\ idx <= Len(movies)
    /\ \E resp \in PosterResponses :
        LET movie == movies[idx]
            out == download_poster(keys.tmdb, movie.tmdb_id, cache_dir, resp, now)
        IN  /\ cache_dir' = out.dir
            /\ poster_manifest' =
                   IF out.cached_posters # <<>>
                   THEN Append(SelectSeq(poster_manifest,
                                         LAMBDA e : e.tmdb_id # movie.tmdb_id),
                               [tmdb_id |-> movie.tmdb_id, title |-> movie.title,
                                year |-> movie.year, posters |-> out.cached_posters,
                                cache_date |-> <<StrFTime(now), now % TicksPerDay>>])
                   ELSE poster_manifest
            /\ downloads' = Append(downloads,
                   [kind |-> "download_poster", tmdb_id |-> movie.tmdb_id,
                    before |-> cache_dir, after |-> out.dir, reqs |-> out.reqs,
                    cached_posters |-> out.cached_posters, resp |-> resp, at |-> now])
    /\ idx' = idx + 1
    /\ UNCHANGED <<now, files, pc, keys, movies_data, streaming_data, runs, startedAt,
                   fetcher, manifestFile, movies, rate>>

\* cache_all_posters, lines 211-215: the manifest is saved.
PosterSave ==
    /\ pc = "caching"
    /\ idx > Len(movies)
    /\ manifestFile' = Some(poster_manifest)
    /\ pc' = "done"
    /\ UNCHANGED <<now, files, keys, movies_data, streaming_data, idx, runs, startedAt,
                   fetcher, cache_dir, movies, poster_manifest, downloads, rate>>

\* The process ends; the files stay.
PosterTerminate ==
    /\ pc \in {"done", "crashed"}
    /\ pc' = "idle"
    /\ keys' = NoKeys
    /\ movies_data' = None
    /\ streaming_data' = None
    /\ idx' = 0
    /\ startedAt' = 0
    /\ movies' = <<>>
    /\ poster_manifest' = <<>>
    /\ downloads' = <<>>
    /\ UNCHANGED <<now, files, runs, fetcher, cache_dir, manifestFile, rate>>

\* Time passes between runs and between the downloads.
PosterTick ==
    /\ pc \in {"idle", "caching"}
    /\ now < Now0 + MaxTicks
    /\ now' = now + 1
    /\ UNCHANGED <<files, pc, memory, history, call, poster, rate>>

\* Between two runs the environment may change: _load_tmdb_config reads .env
\* and TMDB_API_KEY anew in every process.
PosterEnv ==
    /\ pc = "idle"
    /\ runs > 0
    /\ env' \in {[tmdb |-> TRUE, watchmode |-> FALSE], NoKeys} \ {env}
    /\ UNCHANGED <<now, moviesFile, streamingFile, pc, memory, history, call, poster,
                   rate>>

NextPoster ==
    \/ PosterStart \/ PosterCleanup \/ PosterBegin \/ PosterItem \/ PosterSave
    \/ PosterTerminate \/ PosterTick \/ PosterEnv

SpecPoster == InitPoster /\ [][NextPoster]_vars

\* -------------------------------------------------------------------------
\* Properties
\* -------------------------------------------------------------------------

\* The records a document holds for (episode number, title).
RecordsOf(doc, ep, title) ==
    UNION {{doc.episodes[e].movies[m] :
               m \in {j \in 1..Len(doc.episodes[e].movies) :
                         doc.episodes[e].movies[j].title = title}} :
           e \in {j \in 1..Len(doc.episodes) : doc.episodes[j].episode_number = ep}}

\* The (episode number, title) pairs a document lists.
PairsOf(doc) ==
    UNION {{<<doc.episodes[e].episode_number, doc.episodes[e].movies[m].title>> :
               m \in 1..Len(doc.episodes[e].movies)} :
           e \in 1..Len(doc.episodes)}

\* last_updated is a YYYY-MM-DD date D with t - D < 7 days.
WithinWindow(rec, t) ==
    /\ "last_updated" \in DOMAIN rec
    /\ ~StrPTime(rec.last_updated).raised
    /\ t - StrPTime(rec.last_updated).ticks < 7 * TicksPerDay

InUpdateList(ep, title) ==
    \E k \in 1..Len(movies_to_update) :
        /\ movies_to_update[k].episode_number = ep
        /\ movies_to_update[k].movie.title = title

Requested(ep, title) ==
    \E k \in 1..Len(requests) :
        requests[k].episode_number = ep /\ requests[k].title = title

FetchesOf(ep, title) ==
    {k \in 1..Len(fetched) :
        fetched[k].episode_number = ep /\ fetched[k].title = title}

\* The record the last fetch of (ep, title) returned.
LastFetched(ep, title) ==
    fetched[CHOOSE k \in FetchesOf(ep, title) : \A j \in FetchesOf(ep, title) : j <= k].record

Running == pc \in {"update", "fetch", "done", "exited", "crashed"}

\* The run got past get_movies_to_update.
Listed == pc \in {"update", "fetch", "done"} /\ movies_data # None

Saved == pc = "done" /\ writes = 1

IsCall(fn) == call # None /\ call[1].fn = fn

\* C1: in a second run, a movie whose stored record was written by the fetcher
\* and has last_updated within the 7-day window is not in the update list and
\* no provider request is issued for it.
C1_SecondRunSkipsFresh ==
    (runs >= 2 /\ Listed /\ fileAtStart.status = "ok") =>
        \A p \in PairsOf(movies_data[1]) :
            (\E rec \in RecordsOf(fileAtStart.doc, p[1], p[2]) :
                "watchmode_id" \in DOMAIN rec /\ WithinWindow(rec, startedAt))
            => ~InUpdateList(p[1], p[2]) /\ ~Requested(p[1], p[2])

\* C2: is_movie_recently_updated returns true exactly when the loaded streaming
\* data holds a record for (episode number, title) whose last_updated is a
\* YYYY-MM-DD date D with now - D < 7 days.
C2_RecentIffWithinWindow ==
    IsCall("is_movie_recently_updated") =>
        call[1].out =
            Returns(/\ streaming_data # None
                    /\ \E rec \in RecordsOf(streaming_data[1], call[1].episode_number,
                                            call[1].movie_title) :
                           WithinWindow(rec, now))

C2_Witness ==
    /\ IsCall("is_movie_recently_updated")
    /\ call[1].out.value
    /\ streaming_data # None
    /\ \E rec \in RecordsOf(streaming_data[1], call[1].episode_number,
                            call[1].movie_title) :
           /\ ~StrPTime(rec.last_updated).raised
           /\ now - StrPTime(rec.last_updated).ticks >= 6 * TicksPerDay

\* C3: a movie of the movies data whose stored record is 7 or more days old,
\* has no last_updated, or does not exist is put in the update list, and a run
\* that completes has fetched it.
C3_StaleIsRefetched ==
    (Running /\ movies_data # None) =>
        \A p \in PairsOf(movies_data[1]) :
            (\/ fileAtStart.status # "ok"
             \/ \A rec \in RecordsOf(fileAtStart.doc, p[1], p[2]) :
                    ~WithinWindow(rec, startedAt))
            => /\ InUpdateList(p[1], p[2])
               /\ pc = "done" => FetchesOf(p[1], p[2]) # {} /\ Requested(p[1], p[2])

C3_Witness ==
    /\ Saved
    /\ fileAtStart.status = "ok"
    /\ \E p \in PairsOf(movies_data[1]) :
        /\ \E rec \in RecordsOf(fileAtStart.doc, p[1], p[2]) :
               /\ "last_updated" \in DOMAIN rec
               /\ ~StrPTime(rec.last_updated).raised
               /\ startedAt - StrPTime(rec.last_updated).ticks >= 7 * TicksPerDay
        /\ FetchesOf(p[1], p[2]) # {}

\* C4: a stored last_updated string that is not a YYYY-MM-DD date makes
\* is_movie_recently_updated return false without raising, and
\* get_movies_to_update lists the movie.
Unparseable(rec) ==
    "last_updated" \in DOMAIN rec /\ StrPTime(rec.last_updated).raised

C4_UnparseableIsStale ==
    /\ IsCall("is_movie_recently_updated") =>
          ((/\ streaming_data # None
            /\ \E rec \in RecordsOf(streaming_data[1], call[1].episode_number,
                                    call[1].movie_title) : Unparseable(rec))
           => call[1].out = Returns(FALSE))
    /\ IsCall("get_movies_to_update") =>
          /\ ~call[1].out.raised
          /\ \A p \in PairsOf(movies_data[1]) :
                (/\ streaming_data # None
                 /\ \E rec \in RecordsOf(streaming_data[1], p[1], p[2]) :
                        Unparseable(rec))
                => \E k \in 1..Len(call[1].out.value) :
                       /\ call[1].out.value[k].episode_number = p[1]
                       /\ call[1].out.value[k].movie.title = p[2]

C4_Witness ==
    /\ IsCall("is_movie_recently_updated")
    /\ streaming_data # None
    /\ \E rec \in RecordsOf(streaming_data[1], call[1].episode_number,
                            call[1].movie_title) :
           Unparseable(rec) /\ rec.last_updated = Date_0230
    /\ call[1].out = Returns(FALSE)

\* C5: the merged list is the primary (Watchmode) sources followed by exactly
\* the secondary (TMDB) sources whose (name, type) does not occur among the
\* primary ones.
KeysOf(sources) == {<<sources[i].name, sources[i].type>> : i \in 1..Len(sources)}

PrimaryThenNew(primary, secondary) ==
    primary \o SelectSeq(secondary,
                         LAMBDA src : <<src.name, src.type>> \notin KeysOf(primary))

C5_MergeIsPrimaryThenNew ==
    /\ IsCall("merge") =>
          call[1].out = PrimaryThenNew(call[1].watchmode_sources, call[1].tmdb_sources)
    /\ IsCall("fetch_movie_streaming_info") =>
          call[1].out.record.streaming_sources =
              PrimaryThenNew(call[1].out.watchmode_sources, call[1].out.tmdb_sources)

C5_Witness ==
    /\ IsCall("merge")
    /\ call[1].watchmode_sources = <<NetflixSubWm>>
    /\ call[1].tmdb_sources = <<NetflixSubTmdb, TubiFreeTmdb>>
    /\ call[1].out = <<NetflixSubWm, TubiFreeTmdb>>

\* C6: the streaming_sources of a fetched record never holds two entries with
\* the same (name, type).
NoDuplicateKeys(sources) ==
    \A i, j \in 1..Len(sources) :
        (sources[i].name = sources[j].name /\ sources[i].type = sources[j].type)
        => i = j

C6_MergedHasNoDuplicates ==
    IsCall("fetch_movie_streaming_info") =>
        NoDuplicateKeys(call[1].out.record.streaming_sources)

\* C7: after update_streaming_data the record of every movie of the update list
\* is the newly fetched record and nothing else, and the records of all other
\* stored movies are as they were.
C7_ReplacedWholesale ==
    Saved =>
        /\ \A k \in 1..Len(movies_to_update) :
              LET ep == movies_to_update[k].episode_number
                  title == movies_to_update[k].movie.title
              IN  RecordsOf(streamingFile.doc, ep, title) = {LastFetched(ep, title)}
        /\ fileAtStart.status = "ok" =>
              \A p \in PairsOf(fileAtStart.doc) :
                  ~InUpdateList(p[1], p[2]) =>
                      RecordsOf(streamingFile.doc, p[1], p[2])
                          = RecordsOf(fileAtStart.doc, p[1], p[2])

C7_Witness ==
    /\ Saved
    /\ fileAtStart.status = "ok"
    /\ \E p \in PairsOf(fileAtStart.doc) :
          /\ InUpdateList(p[1], p[2])
          /\ \E rec \in RecordsOf(fileAtStart.doc, p[1], p[2]) : "notes" \in DOMAIN rec
    /\ \E p \in PairsOf(fileAtStart.doc) : ~InUpdateList(p[1], p[2])

RecordFields == {"title", "year", "imdb_id", "streaming_sources", "data_sources",
                 "last_updated", "tmdb_id", "watchmode_id"}

C9_NoSourceIsARecord ==
    \A k \in 1..Len(fetched) :
        (fetched[k].watchmode_sources = <<>> /\ fetched[k].tmdb_sources = <<>>) =>
            /\ DOMAIN fetched[k].record = RecordFields
            /\ fetched[k].record.streaming_sources = <<>>
            /\ fetched[k].record.data_sources = <<>>
            /\ (Saved /\ \A j \in FetchesOf(fetched[k].episode_number, fetched[k].title) :
                             j <= k) =>
                  /\ fetched[k].record \in RecordsOf(streamingFile.doc,
                                                     fetched[k].episode_number,
                                                     fetched[k].title)
                  /\ find_streaming_data(Some(streamingFile.doc),
                                         fetched[k].episode_number,
                                         fetched[k].title) = <<>>

C9_Witness ==
    /\ Saved
    /\ fileAtStart.status = "ok"
    /\ \E k \in 1..Len(fetched) :
          /\ fetched[k].watchmode_sources = <<>>
          /\ fetched[k].tmdb_sources = <<>>
          /\ fetched[k].failures = {}
          /\ find_streaming_data(Some(fileAtStart.doc), fetched[k].episode_number,
                                 fetched[k].title) # <<>>
          /\ find_streaming_data(Some(streamingFile.doc), fetched[k].episode_number,
                                 fetched[k].title) = <<>>

\* C10 as stated: a missing or malformed input file, whichever of the two files
\* it is, ends the process without a provider request and without a write.
C10_AnyBadInputIsFatal ==
    (Running /\ env # NoKeys
       /\ (moviesFile.status # "ok" \/ fileAtStart.status # "ok")) =>
        /\ pc \in {"update", "exited", "crashed"}
        /\ requests = <<>>
        /\ writes = 0
        /\ streamingFile = fileAtStart

\* C10 as amended: a missing or malformed movies file is fatal, and so is a
\* malformed streaming-data file once update_streaming_data loads it (it is
\* loaded only when the update list is not empty): the process ends without a
\* provider request and without a write. A missing streaming-data file is not
\* fatal: the run starts from an empty document, fetches and saves.
C10_BadInputIsFatalExceptMissingStreamingData ==
    /\ (Running /\ moviesFile.status # "ok") =>
          /\ pc = "exited"
          /\ requests = <<>>
          /\ writes = 0
          /\ streamingFile = fileAtStart
    /\ (Running /\ fileAtStart.status = "malformed") =>
          /\ pc \in {"update", "exited", "crashed", "done"}
          /\ pc = "done" => movies_to_update = <<>>
          /\ pc = "crashed" => movies_to_update # <<>>
          /\ requests = <<>>
          /\ writes = 0
          /\ streamingFile = fileAtStart
    /\ (Running /\ fileAtStart.status = "missing" /\ movies_to_update # <<>>) =>
          /\ pc \in {"update", "fetch", "done"}
          /\ pc = "done" =>
                /\ writes = 1
                /\ streamingFile.status = "ok"
                /\ requests # <<>>
                /\ PairsOf(streamingFile.doc) =
                       {<<movies_to_update[k].episode_number,
                          movies_to_update[k].movie.title>> :
                            k \in 1..Len(movies_to_update)}

C10_Witness ==
    /\ pc = "crashed"
    /\ fileAtStart.status = "malformed"
    /\ moviesFile.status = "ok"
    /\ requests = <<>>

\* C11: within a run every provider endpoint is requested at most once for each
\* fetch of a movie of the update list; a request that failed is not issued
\* again.
Endpoints == {"watchmode_search", "watchmode_sources", "tmdb_search", "tmdb_providers"}

RequestsOf(ep, title, endpoint) ==
    {k \in 1..Len(requests) :
        requests[k] = [episode_number |-> ep, title |-> title, endpoint |-> endpoint]}

C16_SavedEpisodesAscending ==
    Saved =>
        LET doc == streamingFile.doc
        IN  /\ streamingFile.status = "ok"
            /\ \A i, j \in 1..Len(doc.episodes) :
                  i < j => doc.episodes[i].episode_number < doc.episodes[j].episode_number
            /\ doc.metadata.total_episodes = Len(doc.episodes)

C16_Witness ==
    /\ Saved
    /\ fileAtStart.status = "ok"
    /\ Len(fileAtStart.doc.episodes) = 2
    /\ fileAtStart.doc.episodes[1].episode_number > fileAtStart.doc.episodes[2].episode_number
    /\ Len(streamingFile.doc.episodes) = 2
    /\ streamingFile.doc.metadata.total_episodes = 2

\* C17: a source both providers list is kept in Watchmode's version only, and
\* the merged list is the Watchmode sources in Watchmode's order followed by
\* TMDB sources in TMDB's order.
RECURSIVE IsSubsequence(_, _)
IsSubsequence(a, b) ==
    IF a = <<>> THEN TRUE
    ELSE IF b = <<>> THEN FALSE
    ELSE IF Head(a) = Head(b) THEN IsSubsequence(Tail(a), Tail(b))
    ELSE IsSubsequence(a, Tail(b))

WatchmodeFirst(primary, secondary, merged) ==
    /\ Len(merged) >= Len(primary)
    /\ SubSeq(merged, 1, Len(primary)) = primary
    /\ IsSubsequence(SubSeq(merged, Len(primary) + 1, Len(merged)), secondary)
    /\ \A i \in 1..Len(merged) :
          <<merged[i].name, merged[i].type>> \in KeysOf(primary) \cap KeysOf(secondary)
              => i <= Len(primary)

C17_WatchmodeTakesPrecedence ==
    /\ IsCall("merge") =>
          WatchmodeFirst(call[1].watchmode_sources, call[1].tmdb_sources, call[1].out)
    /\ IsCall("fetch_movie_streaming_info") =>
          WatchmodeFirst(call[1].out.watchmode_sources, call[1].out.tmdb_sources,
                         call[1].out.record.streaming_sources)

C17_Witness ==
    /\ IsCall("fetch_movie_streaming_info")
    /\ call[1].out.watchmode_sources = <<NetflixSubWm>>
    /\ call[1].out.tmdb_sources = <<TubiFreeTmdb, NetflixSubTmdb>>
    /\ call[1].out.record.streaming_sources = <<NetflixSubWm, TubiFreeTmdb>>
    /\ call[1].out.record.streaming_sources[1].web_url = NetflixUrl

\* C18: when the Watchmode search result carries a tmdb_id no TMDB search is
\* issued and that id is the one passed to the TMDB watch-providers request; a
\* TMDB search is issued only with a TMDB key and without an id from Watchmode;
\* without a TMDB key no TMDB request is issued.
RequestedEndpoints(out) == {out.reqs[k] : k \in 1..Len(out.reqs)}

C18_TmdbIdReuse ==
    IsCall("fetch_movie_streaming_info") =>
        LET out == call[1].out
            carried == /\ out.wm_movie # None
                       /\ "tmdb_id" \in DOMAIN out.wm_movie[1]
                       /\ out.wm_movie[1].tmdb_id # None
                       /\ out.wm_movie[1].tmdb_id[1] # 0
        IN  /\ carried =>
                  /\ "tmdb_search" \notin RequestedEndpoints(out)
                  /\ keys.tmdb =>
                        /\ "tmdb_providers" \in RequestedEndpoints(out)
                        /\ out.tmdb_providers_arg = out.wm_movie[1].tmdb_id
                  /\ out.record.tmdb_id = out.wm_movie[1].tmdb_id
            /\ "tmdb_search" \in RequestedEndpoints(out) => keys.tmdb /\ ~carried
            /\ ~keys.tmdb =>
                  RequestedEndpoints(out) \cap {"tmdb_search", "tmdb_providers"} = {}

C18_Witness ==
    /\ IsCall("fetch_movie_streaming_info")
    /\ keys.tmdb
    /\ call[1].out.wm_movie = Some(WmHit)
    /\ call[1].out.reqs = <<"watchmode_search", "watchmode_sources", "tmdb_providers">>
    /\ call[1].out.tmdb_providers_arg = Some(7)

\* C19: a run whose update list is empty returns without a provider request
\* and without writing the streaming-data file.
C19_EmptyListNoEffect ==
    (Listed /\ movies_to_update = <<>>) =>
        /\ pc = "done"
        /\ requests = <<>>
        /\ fetched = <<>>
        /\ writes = 0
        /\ streamingFile = fileAtStart

C19_Witness ==
    /\ pc = "done"
    /\ movies_data # None
    /\ movies_to_update = <<>>
    /\ fileAtStart.status = "ok"
    /\ fileAtStart.doc.episodes # <<>>
    /\ streamingFile = fileAtStart

\* The download_poster calls of the current run.
DownloadCalls == {k \in 1..Len(downloads) : downloads[k].kind = "download_poster"}

PosterName(tmdb_id, size) == [tmdb_id |-> tmdb_id, size |-> size, ext |-> "jpg"]

FilesNamed(dir, name) == IF dir = None THEN {} ELSE {f \in dir[1] : f.name = name}

SizeNames == {"w342", "w500", "w780"}

ImageRequested(ev, size) ==
    \E r \in 1..Len(ev.reqs) :
        ev.reqs[r] = [kind |-> "image", tmdb_id |-> ev.tmdb_id, size |-> size]

Reported(ev, size) ==
    \E c \in 1..Len(ev.cached_posters) :
        ev.cached_posters[c] =
            [size |-> size,
             path |-> [dir |-> "posters", file |-> PosterName(ev.tmdb_id, size)]]

\* C12 as stated: a call of download_poster for an id of which a size is
\* already in the cache directory issues no download of that size, leaves the
\* file as it is, and reports the cached path of that size.
C12_CachedSizeIsReported ==
    \A k \in DownloadCalls : \A size \in SizeNames :
        LET ev == downloads[k]
            name == PosterName(ev.tmdb_id, size)
        IN  FilesNamed(ev.before, name) # {} =>
                /\ ~ImageRequested(ev, size)
                /\ FilesNamed(ev.after, name) = FilesNamed(ev.before, name)
                /\ Reported(ev, size)

\* C12 as amended: the size is never downloaded again and the file is left as
\* it is; its cached path is reported when the movie-details request returns
\* 200 with a poster_path, and otherwise the call returns an empty result.
C12_CachedSizeIsNotDownloaded ==
    \A k \in DownloadCalls : \A size \in SizeNames :
        LET ev == downloads[k]
            name == PosterName(ev.tmdb_id, size)
        IN  FilesNamed(ev.before, name) # {} =>
                /\ ~ImageRequested(ev, size)
                /\ FilesNamed(ev.after, name) = FilesNamed(ev.before, name)
                /\ (keys.tmdb /\ ev.resp.details = "ok") => Reported(ev, size)
                /\ ev.resp.details # "ok" =>
                      ev.cached_posters = <<>> /\ ev.after = ev.before

C12_Witness ==
    \E k \in DownloadCalls :
        LET ev == downloads[k]
        IN  /\ FilesNamed(ev.before, PosterName(ev.tmdb_id, "w500")) # {}
            /\ FilesNamed(ev.before, PosterName(ev.tmdb_id, "w780")) = {}
            /\ Reported(ev, "w500")
            /\ Reported(ev, "w780")
            /\ ImageRequested(ev, "w780")
            /\ ~ImageRequested(ev, "w500")

\* The cleanup of the current run, once it has happened.
Cleaned == downloads # <<>> /\ downloads[1].kind = "cleanup"

\* The .jpg files of a directory that are more than 30 days old at time t.
ExpiredAt(dir, t) ==
    IF dir = None THEN {}
    ELSE {f \in dir[1] : f.name.ext = "jpg" /\ t - f.mtime > 30 * TicksPerDay}

IsPoster(f) == f.name.ext = "jpg" /\ f.name.size \in SizeNames

DeletesExactlyExpired ==
    /\ pc \in {"cleaned", "caching"} => Cleaned
    /\ (pc = "done" /\ movies_data # None) => Cleaned
    /\ \A k \in 1..Len(downloads) :
          IF k = 1
          THEN /\ downloads[k].kind = "cleanup"
               /\ downloads[k].at = startedAt
               /\ downloads[k].before = None => downloads[k].after = None
               /\ downloads[k].before # None =>
                     /\ downloads[k].after # None
                     /\ downloads[k].after[1] =
                            downloads[k].before[1]
                                \ ExpiredAt(downloads[k].before, downloads[k].at)
          ELSE downloads[k].kind = "download_poster"

\* C13 as stated: the cleanup deletes exactly the .jpg files more than 30 days
\* old, and every poster it deleted is in the cache again, newly downloaded,
\* when the run ends.
C13_ExpiredIsRedownloaded ==
    /\ DeletesExactlyExpired
    /\ (pc = "done" /\ Cleaned) =>
          \A f \in ExpiredAt(downloads[1].before, downloads[1].at) :
              IsPoster(f) =>
                  \E g \in FilesNamed(cache_dir, f.name) : g.mtime >= downloads[1].at

\* C13 as amended: the cleanup deletes exactly the .jpg files more than 30 days
\* old, before any download of the run; a deleted poster is in the cache again
\* at the end of the run exactly when a download_poster call of the run for
\* its id got the movie details and the image of its size.
C13_ExpiredIsDeletedFirst ==
    /\ DeletesExactlyExpired
    /\ (pc = "done" /\ Cleaned) =>
          \A f \in ExpiredAt(downloads[1].before, downloads[1].at) :
              IsPoster(f) =>
                  /\ f \notin cache_dir[1]
                  /\ (\E g \in FilesNamed(cache_dir, f.name) : g.mtime >= downloads[1].at)
                       <=> (/\ keys.tmdb
                            /\ \E k \in DownloadCalls :
                                  /\ downloads[k].tmdb_id = f.name.tmdb_id
                                  /\ downloads[k].resp.details = "ok"
                                  /\ downloads[k].resp.image[f.name.size] = "ok")

C13_Witness ==
    /\ pc = "done"
    /\ Cleaned
    /\ \E f \in ExpiredAt(downloads[1].before, downloads[1].at) :
          /\ IsPoster(f)
          /\ f \notin downloads[1].after[1]
          /\ \E g \in FilesNamed(cache_dir, f.name) : g.content = "downloaded"
    /\ \E f \in downloads[1].after[1] : IsPoster(f) /\ f.content = "old"

\* The positions of the movies of a movies document, in document order.
Positions(md) ==
    UNION {{<<e, m>> : m \in 1..Len(md.episodes[e].movies)} : e \in 1..Len(md.episodes)}

Precedes(p, q) == p[1] < q[1] \/ (p[1] = q[1] /\ p[2] < q[2])

SameYear(a, b) ==
    IF "year" \in DOMAIN a THEN "year" \in DOMAIN b /\ a.year = b.year
    ELSE "year" \notin DOMAIN b

\* The TMDB ids of the streaming records that match the movie at position p
\* by episode number, lower-cased title and year.
IdsFor(md, sd, p) ==
    LET episode == md.episodes[p[1]]
        movie == episode.movies[p[2]]
    IN  UNION {{sd.episodes[e].movies[r].tmdb_id[1] :
                   r \in {j \in 1..Len(sd.episodes[e].movies) :
                            LET rec == sd.episodes[e].movies[j]
                            IN  /\ Lower(rec.title) = Lower(movie.title)
                                /\ SameYear(rec, movie)
                                /\ "tmdb_id" \in DOMAIN rec
                                /\ rec.tmdb_id # None
                                /\ rec.tmdb_id[1] # 0}} :
               e \in {j \in 1..Len(sd.episodes) :
                        sd.episodes[j].episode_number = episode.episode_number}}

\* C20: the movies get_all_movies_with_tmdb_ids returns have distinct TMDB
\* ids; each is a movie of the movies data matched by a streaming record with
\* that id, and the first such movie of its id in movies-data order; every
\* matched movie's id is covered; download_poster is called at most once for
\* a TMDB id in a run.
C20_PosterCandidatesUnique ==
    (pc \in {"caching", "done"} /\ movies_data # None /\ keys.tmdb) =>
        LET md == movies_data[1]
            sd == streaming_data[1]
        IN  /\ \A i, j \in 1..Len(movies) :
                  movies[i].tmdb_id = movies[j].tmdb_id => i = j
            /\ \A i \in 1..Len(movies) :
                  \E p \in Positions(md) :
                      /\ md.episodes[p[1]].episode_number = movies[i].episode
                      /\ md.episodes[p[1]].movies[p[2]].title = movies[i].title
                      /\ movies[i].tmdb_id \in IdsFor(md, sd, p)
                      /\ \A q \in Positions(md) :
                            Precedes(q, p) => IdsFor(md, sd, q) # {movies[i].tmdb_id}
            /\ \A p \in Positions(md) :
                  IdsFor(md, sd, p) # {} =>
                      \E i \in 1..Len(movies) : movies[i].tmdb_id \in IdsFor(md, sd, p)
            /\ \A k, j \in DownloadCalls :
                  downloads[k].tmdb_id = downloads[j].tmdb_id => k = j
            /\ \A k \in DownloadCalls :
                  \E i \in 1..Len(movies) : movies[i].tmdb_id = downloads[k].tmdb_id

C20_Witness ==
    /\ pc = "done"
    /\ keys.tmdb
    /\ Cardinality({p \in Positions(movies_data[1]) :
                      IdsFor(movies_data[1], streaming_data[1], p) = {7}}) = 2
    /\ Len(movies) = 2
    /\ movies[1].tmdb_id = 7
    /\ movies[1].episode = 1
    /\ movies[2].title = "B"
    /\ Cardinality(DownloadCalls) = 2

C15_EpisodesNumberedInDateOrder ==
    IsCall("main") =>
        LET episodes == moviesFile.doc.episodes
        IN  /\ \A i \in 1..Len(episodes) :
                  /\ episodes[i].episode_number = i
                  /\ \A m \in 1..Len(episodes[i].movies) :
                        episodes[i].movies[m].episode_reference = i
            /\ \A i, j \in 1..Len(episodes) :
                  (/\ i < j
                   /\ ~StrPTime(episodes[i].air_date).raised
                   /\ ~StrPTime(episodes[j].air_date).raised)
                  => StrPTime(episodes[i].air_date).ticks
                         <= StrPTime(episodes[j].air_date).ticks
            /\ moviesFile.doc.metadata.total_episodes = Len(episodes)

C15_Witness ==
    /\ IsCall("main")
    /\ Len(call[1].data.episodes) = 3
    /\ call[1].data.episodes[1].episode_number = 12
    /\ call[1].data.episodes[2].episode_number = 1
    /\ call[1].data.episodes[3].episode_number = 1
    /\ call[1].data.episodes[1].air_date = Date_0309
    /\ call[1].data.episodes[3].air_date = Date_0223
    /\ Len(moviesFile.doc.episodes) = 3
    /\ moviesFile.doc.episodes[3].air_date = Date_0309
    /\ moviesFile.doc.episodes[3].movies[1].episode_reference = 3
    /\ moviesFile.doc.episodes[1].air_date = Date_0223

\* The tmdb_ids that have an entry in a manifest file.
ManifestIds(file) ==
    IF file = None THEN {} ELSE {file[1][k].tmdb_id : k \in 1..Len(file[1])}

\* The tmdb_ids for which a download_poster call of this run returned a size.
CachedIds ==
    {downloads[k].tmdb_id :
        k \in {j \in DownloadCalls : downloads[j].cached_posters # <<>>}}

\* C21 as stated: at the end of every run of cache_all_posters the manifest on
\* disk has an entry for a tmdb_id exactly when download_poster returned at
\* least one cached size for that id in this run.
C21_ManifestRebuiltEveryRun ==
    pc = "done" => ManifestIds(manifestFile) = CachedIds

\* C21: a run of cache_all_posters that has a TMDB key writes a manifest with
\* one entry per tmdb_id for which download_poster returned at least one
\* cached size in this run, holding exactly the returned sizes, and with no
\* other entry; the manifest file changes at no other step, so a run without
\* a key leaves the manifest of the previous run on disk as it is.
C21_ManifestRebuiltWithKey ==
    /\ [](pc = "done" /\ keys.tmdb =>
             /\ manifestFile # None
             /\ ManifestIds(manifestFile) = CachedIds
             /\ Len(manifestFile[1]) = Cardinality(CachedIds)
             /\ \A e \in 1..Len(manifestFile[1]) :
                   \E k \in DownloadCalls :
                       /\ downloads[k].tmdb_id = manifestFile[1][e].tmdb_id
                       /\ downloads[k].cached_posters = manifestFile[1][e].posters)
    /\ [][manifestFile' # manifestFile =>
              /\ keys.tmdb
              /\ pc = "caching"
              /\ pc' = "done"
              /\ manifestFile' = Some(poster_manifest)]_vars

\* A second run ends: the metadata request of a movie failed although a poster
\* the previous run downloaded is still on disk, and the manifest has no entry
\* for it.
C21_Witness ==
    /\ pc = "done"
    /\ keys.tmdb
    /\ runs = 2
    /\ \E k \in DownloadCalls :
          /\ downloads[k].resp.details # "ok"
          /\ \E f \in downloads[k].after[1] :
                /\ f.name.tmdb_id = downloads[k].tmdb_id
                /\ f.name.ext = "jpg"
                /\ f.content = "downloaded"
          /\ downloads[k].tmdb_id \notin ManifestIds(manifestFile)
    /\ manifestFile # None

\* The positions of a list of episodes that hold the first occurrence of their
\* (episode_number, title) pair.
FirstOccurrences(episodes) ==
    {i \in 1..Len(episodes) :
        \A j \in 1..(i - 1) :
            <<episodes[j].episode_number, episodes[j].title>>
                # <<episodes[i].episode_number, episodes[i].title>>}

\* C22: clean_episode_data returns one episode for every (episode_number,
\* original title) pair of its input and no other: the k-th episode of the
\* result is the cleaned form of the k-th first occurrence of a pair, so the
\* first occurrence is the one retained and the input order is kept.
C22_FirstOccurrencesKeptInOrder ==
    IsCall("clean_episode_data") =>
        LET episodes == call[1].episodes
            out == call[1].out
            firsts == FirstOccurrences(episodes)
        IN  /\ Len(out) = Cardinality(firsts)
            /\ \A i \in firsts :
                  LET k == Cardinality({j \in firsts : j <= i})
                  IN  /\ out[k].episode_number = episodes[i].episode_number
                      /\ out[k].title = clean_episode_title(episodes[i].title)
                      /\ out[k].air_date = episodes[i].air_date
                      /\ Len(out[k].movies) = Len(episodes[i].movies)

\* Three episodes numbered 1: the third repeats the pair of the first, the
\* second has another title that cleans to the same one.
C22_Witness ==
    /\ IsCall("clean_episode_data")
    /\ Len(call[1].episodes) = 3
    /\ call[1].episodes[1].title = <<"Pilot">>
    /\ call[1].episodes[1].air_date = Date_0301
    /\ call[1].episodes[2].title = <<"Pilot", " ", "(LIVE!)">>
    /\ call[1].episodes[3].title = <<"Pilot">>
    /\ call[1].episodes[3].air_date = Date_0223
    /\ Len(call[1].out) = 2
    /\ call[1].out[1].air_date = Date_0301
    /\ call[1].out[2].air_date = Date_0224
    /\ call[1].out[2].title = call[1].out[1].title

\* The sources of a list that have priority p, in the order of the list.
OfPriority(sources, p) == SelectSeq(sources, LAMBDA x : SourcePriority(x) = p)

\* sort_streaming_sources returns its input ordered by priority, with the
\* sources of one priority in input order (so it is a permutation).
SortIsStableByPriority ==
    IsCall("sort_streaming_sources") =>
        LET sources == call[1].sources
            out == call[1].out
        IN  /\ Len(out) = Len(sources)
            /\ \A i, j \in 1..Len(out) :
                  i < j => SourcePriority(out[i]) <= SourcePriority(out[j])
            /\ \A p \in 0..4 : OfPriority(out, p) = OfPriority(sources, p)

\* The source elements of a page's sections, in page order.
RECURSIVE RenderedSources(_)
RenderedSources(sections) ==
    IF sections = <<>> THEN <<>>
    ELSE Head(sections).sources \o RenderedSources(Tail(sections))

\* The movie block lists, in priority order, the stored sources whose type is
\* free, subscription, rent or buy in any letter case, and no other source.
ListedTypesRendered ==
    IsCall("generate_movie_html") /\ call[1].sources # <<>> =>
        LET listed == SelectSeq(sort_streaming_sources(call[1].sources),
                                LAMBDA x : SourcePriority(x) < 4)
        IN  /\ call[1].out.streaming_sources # None
            /\ RenderedSources(call[1].out.streaming_sources[1])
                   = [i \in 1..Len(listed) |-> SourceHtml(listed[i])]

\* C23: sort_streaming_sources returns a permutation of its input ordered by
\* the priority free < subscription < rent < buy < any other type that keeps
\* the input order among equal priorities, and the movie block generate_movie_html
\* writes holds every stored source of the movie exactly once, in the order
\* of the sorted list.
C23_EverySourceRenderedInPriorityOrder ==
    /\ SortIsStableByPriority
    /\ IsCall("generate_movie_html") /\ call[1].sources # <<>> =>
          LET sorted_sources == sort_streaming_sources(call[1].sources)
          IN  /\ call[1].out.streaming_sources # None
              /\ RenderedSources(call[1].out.streaming_sources[1])
                     = [i \in 1..Len(sorted_sources) |-> SourceHtml(sorted_sources[i])]

\* The entries of a stored episodes list that are the last with their number.
LastEntries(doc) ==
    {i \in 1..Len(doc.episodes) :
        \A j \in (i + 1)..Len(doc.episodes) :
            doc.episodes[j].episode_number # doc.episodes[i].episode_number}

\* The records of an entry whose movie is not in the update list, in order.
NotUpdated(episode) ==
    SelectSeq(episode.movies,
              LAMBDA movie : ~InUpdateList(episode.episode_number, movie.title))

\* C24 as stated: every (episode number, movie title) pair the file held before
\* update_streaming_data is still in the file after it.
C24_NoStoredPairDropped ==
    (Saved /\ fileAtStart.status = "ok") =>
        PairsOf(fileAtStart.doc) \subseteq PairsOf(streamingFile.doc)

\* C24: update_streaming_data keeps, for every episode number of the stored
\* list, the last entry with that number: the records of that entry whose movie
\* is not in the update list are in the saved file unchanged and in their order,
\* whether or not the episode or the movie is still in the movies data; an
\* earlier entry with the same episode number is not written back, so the saved
\* pairs are those of the last entries and of the update list.
C24_LastEntryPerEpisodeKept ==
    (Saved /\ fileAtStart.status = "ok") =>
        LET before == fileAtStart.doc
            after == streamingFile.doc
        IN  /\ \A i \in LastEntries(before) :
                  \E e \in 1..Len(after.episodes) :
                      /\ after.episodes[e].episode_number
                             = before.episodes[i].episode_number
                      /\ NotUpdated(after.episodes[e]) = NotUpdated(before.episodes[i])
            /\ PairsOf(after) =
                   UNION {{<<before.episodes[i].episode_number,
                             before.episodes[i].movies[m].title>> :
                              m \in 1..Len(before.episodes[i].movies)} :
                          i \in LastEntries(before)}
                     \cup {<<movies_to_update[k].episode_number,
                              movies_to_update[k].movie.title>> :
                               k \in 1..Len(movies_to_update)}

\* The stored list had two entries numbered 2; the record of the first is gone
\* after the update, an orphaned record of episode 1 is still there.
C24_Witness ==
    /\ Saved
    /\ fileAtStart.status = "ok"
    /\ Len(fileAtStart.doc.episodes) = 3
    /\ <<2, "B">> \in PairsOf(fileAtStart.doc)
    /\ <<2, "B">> \notin PairsOf(streamingFile.doc)
    /\ ~InUpdateList(1, "C")
    /\ RecordsOf(streamingFile.doc, 1, "C") = {StoredRecord("C", TRUE, Date_0224)}

\* The first instant at which a record stamped last_updated is no longer
\* recent: 7 days after the midnight that began the stamped day.
WindowEnd(last_updated) == StrPTime(last_updated).ticks + 7 * TicksPerDay

C26_SingleSaveAfterAllFetches ==
    /\ writes <= 1
    /\ writes = 1 =>
          /\ pc = "done"
          /\ Len(fetched) = Len(movies_to_update)
          /\ \A k \in 1..Len(fetched) :
                /\ fetched[k].episode_number = movies_to_update[k].episode_number
                /\ fetched[k].title = movies_to_update[k].movie.title
    /\ (Running /\ writes = 0) => streamingFile = fileAtStart
    /\ pc = "crashed" => writes = 0

\* A run ended after the first of two movies was fetched with sources: the
\* file is the one the run found.
C26_Witness ==
    /\ pc = "crashed"
    /\ Len(movies_to_update) = 2
    /\ Len(fetched) = 1
    /\ fetched[1].record.streaming_sources # <<>>
    /\ fileAtStart.status = "ok"
    /\ streamingFile = fileAtStart
    /\ fetched[1].record
          \notin RecordsOf(streamingFile.doc, fetched[1].episode_number, fetched[1].title)

\* Every provider request made for the k-th fetch failed, and there was one.
AllCallsFailed(k) ==
    /\ fetched[k].failures # {}
    /\ \A r \in 1..Len(requests) :
          (/\ requests[r].episode_number = fetched[k].episode_number
           /\ requests[r].title = fetched[k].title)
          => requests[r].endpoint \in fetched[k].failures

C28_DataSourcesNameProviders ==
    IsCall("fetch_movie_streaming_info") =>
        LET out == call[1].out
            data_sources == out.record.data_sources
            listed == {data_sources[i] : i \in 1..Len(data_sources)}
        IN  /\ "watchmode" \in listed <=> out.watchmode_sources # <<>>
            /\ "tmdb" \in listed <=> out.tmdb_sources # <<>>
            /\ listed \subseteq {"watchmode", "tmdb"}
            /\ Len(data_sources) = Cardinality(listed)
            /\ Len(data_sources) = 2 => data_sources = <<"watchmode", "tmdb">>

\* Both providers returned Netflix as a subscription: the merge dropped the
\* only TMDB source, and "tmdb" is listed.
C28_Witness ==
    /\ IsCall("fetch_movie_streaming_info")
    /\ call[1].out.watchmode_sources # <<>>
    /\ call[1].out.tmdb_sources # <<>>
    /\ call[1].out.record.streaming_sources = call[1].out.watchmode_sources
    /\ call[1].out.record.data_sources = <<"watchmode", "tmdb">>

====
